---- MODULE Spec2Model ----
(***************************************************************************)
(* State-machine model of the wpp-scrapper services:                       *)
(*   - StrapiStore (src/src/services/StrapiStore.ts): chunked, compressed  *)
(*     persistence of a session artifact in a remote record store;         *)
(*   - SimpleWhatsAppService (src/src/services/SimpleWhatsAppService.ts):  *)
(*     session lifecycle and the bulk group scan.                          *)
(* SpecStore is the specification of the store, SpecScan that of the       *)
(* scans, SpecSession that of the session lifecycle, SpecClose that of     *)
(* close() and the timers, SpecProgress that of getScanProgress().         *)
(***************************************************************************)
EXTENDS Integers, Sequences, FiniteSets, TLC

VARIABLES
  records,    \* the record store's whatsapp-sessions collection, in id order
  nextId,     \* the id the record store gives to the next created record
  sv,         \* the running save()/delete() call of the store client
  hist,       \* per session id: the save()/delete() calls that have returned
  opCount,    \* save()/delete() calls started so far
  outFile,    \* the local file at options.path that extract() writes
  ex,         \* what the last extract() call did
  exCount     \* extract() calls made so far

storeVars == <<records, nextId, sv, hist, opCount, outFile, ex, exCount>>

VARIABLES
  client,             \* this.client: 0 (null) or the handle of an automation client
  live,               \* automation clients created and not yet destroyed
  pupPage,            \* automation clients whose browser page is open
  clientsCreated,     \* automation clients created so far
  qrCode,             \* this.qrCode
  isAuthenticated,    \* this.isAuthenticated
  authError,          \* this.authError
  isInitializing,     \* this.isInitializing
  autoCloseTimeout,   \* this.autoCloseTimeout: "null", "armed" or "fired"
  authTimeoutTimer,   \* this.authTimeoutTimer: "null", "armed" or "fired"
  autoCloseEnabled,   \* the AUTO_CLOSE_* environment switches
  previousMembers,    \* this.previousMembers
  scanning,           \* this.scanning
  scanProgressData,   \* this.scanProgressData
  ini,                \* the running initialize() call
  initCalls,          \* initialize() calls that have started a start-up
  closing,            \* running softClose() calls: the clients they are destroying
  sc,                 \* per caller: its scanGroups() call
  orphans,            \* item executors abandoned by their timeout, still pending
  forwarded           \* groups handed to saveGroupToStrapi so far

sessionVars ==
  <<client, live, pupPage, clientsCreated, qrCode, isAuthenticated, authError,
    isInitializing, autoCloseTimeout, authTimeoutTimer, autoCloseEnabled, ini,
    initCalls, closing>>
scanVars == <<previousMembers, scanning, scanProgressData, sc, orphans, forwarded>>

VARIABLES
  sessionDir,   \* the LocalAuth directory session-<clientId> exists
  lo,           \* the running logout() call
  closeCalls,   \* close() calls made by the controllers so far
  ret           \* what the last call of the service's interface returned

apiVars == <<sessionDir, lo, closeCalls, ret>>

VARIABLES
  ws,   \* the WhatsAppService instance: its fields and its running scanGroups() call
  rt,   \* the running membership fetch with retries
  cs,   \* save() calls of the store that run at the same time
  wl    \* the running withConcurrencyLimit() call

utilVars == <<ws, rt, cs, wl>>

vars == <<storeVars, sessionVars, scanVars, apiVars, utilVars>>

(***************************************************************************)
(* Bounds of the model.                                                    *)
(***************************************************************************)
\* Longest session artifact (bytes) handed to save().
MaxBlobLen == 2
\* Characters per fragment: MAX_CHUNK_SIZE of StrapiStore.ts:33 (1024 * 1024
\* there), scaled down so that artifacts of a few bytes span several fragments.
MAX_CHUNK_SIZE == 3
\* save()/delete() calls per behaviour.
MaxOps == 2
\* extract() calls per behaviour.
MaxExtracts == 1
\* Records per page asked for by deleteAllSessionFragments (pageSize: 100 in
\* StrapiStore.ts:282) and by extract (pageSize: 200 in StrapiStore.ts:178),
\* scaled down with the fragment counts.
DeletePageSize == 1
ExtractPageSize == 4

\* Concurrent callers of scanGroups(), each calling once.
NumCallers == 2
\* Automation clients created per behaviour.
MaxClients == 3
\* Item executors abandoned by their timeout and still pending at a time.
MaxOrphans == 1
\* initialize() calls per behaviour that get past the guards.
MaxInits == 2
\* close() calls of the controllers in a behaviour
MaxCloses == 1
\* clients created in a behaviour with scans
MaxScanClients == 2
\* the largest batch whose progress is asked for
MaxTotal == 200

SessionIds == {"s1", "s2"}
BlobBytes == {0, 255}

RECURSIVE SeqsUpTo(_, _)
SeqsUpTo(S, n) ==
  IF n = 0 THEN {<<>>}
  ELSE LET shorter == SeqsUpTo(S, n - 1)
       IN shorter \cup {Append(s, x) : s \in {t \in shorter : Len(t) = n - 1}, x \in S}

Blobs == SeqsUpTo(BlobBytes, MaxBlobLen)

MinOf(S) == CHOOSE x \in S : \A y \in S : x <= y
Smaller(a, b) == IF a <= b THEN a ELSE b

RECURSIVE SumSeq(_)
SumSeq(s) == IF Len(s) = 0 THEN 0 ELSE s[1] + SumSeq(Tail(s))

(***************************************************************************)
(* zlib.gzipSync / zlib.gunzipSync.  A gzip member is a header that starts *)
(* with the magic bytes 0x1f 0x8b, the deflated payload and a trailer      *)
(* (CRC32, ISIZE) that gunzip verifies.  The model keeps the framing and   *)
(* the verification: the payload is stored, the trailer is one check byte  *)
(* over the payload's content and length.                                  *)
(***************************************************************************)
GzipMagic == <<31, 139>>
GzipCheck(payload) == (SumSeq(payload) + Len(payload) + 1) % 256

gzipSync(data) == GzipMagic \o data \o <<GzipCheck(data)>>

gunzipFails(buf) ==
  \/ Len(buf) < 3
  \/ SubSeq(buf, 1, 2) # GzipMagic
  \/ buf[Len(buf)] # GzipCheck(SubSeq(buf, 3, Len(buf) - 1))

gunzipSync(buf) == SubSeq(buf, 3, Len(buf) - 1)

(***************************************************************************)
(* Buffer.toString('base64') and Buffer.from(text, 'base64').  A character *)
(* is its index 0..63 in the base64 alphabet; PadChar is '='.              *)
(***************************************************************************)
PadChar == 64

Sextets(b0, b1, b2) ==
  LET n == b0 * 65536 + b1 * 256 + b2
  IN <<n \div 262144, (n \div 4096) % 64, (n \div 64) % 64, n % 64>>

RECURSIVE toBase64(_)
toBase64(bytes) ==
  IF Len(bytes) = 0 THEN <<>>
  ELSE IF Len(bytes) = 1
    THEN LET s == Sextets(bytes[1], 0, 0) IN <<s[1], s[2], PadChar, PadChar>>
  ELSE IF Len(bytes) = 2
    THEN LET s == Sextets(bytes[1], bytes[2], 0) IN <<s[1], s[2], s[3], PadChar>>
  ELSE Sextets(bytes[1], bytes[2], bytes[3]) \o toBase64(SubSeq(bytes, 4, Len(bytes)))

\* The decoder stops at the first padding character.
UntilPad(text) ==
  LET pads == {i \in 1..Len(text) : text[i] = PadChar}
  IN IF pads = {} THEN text ELSE SubSeq(text, 1, MinOf(pads) - 1)

RECURSIVE DecodeSextets(_)
DecodeSextets(s) ==
  IF Len(s) < 2 THEN <<>>
  ELSE LET b0 == s[1] * 4 + (s[2] \div 16)
       IN IF Len(s) = 2 THEN <<b0>>
          ELSE LET b1 == (s[2] % 16) * 16 + (s[3] \div 4)
               IN IF Len(s) = 3 THEN <<b0, b1>>
                  ELSE <<b0, b1, (s[3] % 4) * 64 + s[4]>>
                         \o DecodeSextets(SubSeq(s, 5, Len(s)))

fromBase64(text) == DecodeSextets(UntilPad(text))

(***************************************************************************)
(* save(): splitting the encoded text into fragments.                      *)
(***************************************************************************)
\* Math.ceil(base64Data.length / MAX_CHUNK_SIZE)
totalChunksOf(base64Data) == (Len(base64Data) + MAX_CHUNK_SIZE - 1) \div MAX_CHUNK_SIZE

\* String.prototype.substring(from, to), 0-based, clamped to the length.
substring(text, from, to) == SubSeq(text, from + 1, Smaller(to, Len(text)))

\* A splitting that loses the last character of every fragment.
chunkOfShort(base64Data, i) ==
  substring(base64Data, i * MAX_CHUNK_SIZE, (i + 1) * MAX_CHUNK_SIZE - 1)

\* base64Data.substring(i * MAX_CHUNK_SIZE, (i + 1) * MAX_CHUNK_SIZE) (line 118)
chunkOf(base64Data, i) == substring(base64Data, i * MAX_CHUNK_SIZE, (i + 1) * MAX_CHUNK_SIZE)

encodeBlob(zipData) == toBase64(gzipSync(zipData))

(***************************************************************************)
(* The record store: GET /api/whatsapp-sessions with filters, sort and     *)
(* pagination.  Records come back in id order unless a sort is given.      *)
(***************************************************************************)
bySession(id) == SelectSeq(records, LAMBDA r : r.session_id = id)
activeBySession(id) == SelectSeq(records, LAMBDA r : r.session_id = id /\ r.active)

\* sort: 'chunk_index:asc' (ties keep the id order).
RECURSIVE InsertByChunk(_, _)
InsertByChunk(sorted, r) ==
  IF Len(sorted) = 0 THEN <<r>>
  ELSE IF r.chunk_index < sorted[1].chunk_index THEN <<r>> \o sorted
  ELSE <<sorted[1]>> \o InsertByChunk(Tail(sorted), r)

RECURSIVE sortByChunkIndex(_)
sortByChunkIndex(rs) ==
  IF Len(rs) = 0 THEN <<>>
  ELSE InsertByChunk(sortByChunkIndex(SubSeq(rs, 1, Len(rs) - 1)), rs[Len(rs)])

\* pagination: { page, pageSize } and the meta.pagination.pageCount of the answer.
pageOf(rs, page, pageSize) ==
  SubSeq(rs, (page - 1) * pageSize + 1, Smaller(page * pageSize, Len(rs)))
\* A listing that reports one page whatever it holds.
pageCountOne(rs, pageSize) == 1
pageCountOf(rs, pageSize) == (Len(rs) + pageSize - 1) \div pageSize

idsOf(rs) == [k \in 1..Len(rs) |-> rs[k].id]
RangeOf(s) == {s[k] : k \in 1..Len(s)}

\* A DELETE that is answered and removes nothing.
withRecord(rid) == records

\* DELETE /api/whatsapp-sessions/:id
withoutRecord(rid) == SelectSeq(records, LAMBDA r : r.id # rid)

(***************************************************************************)
(* save(options) and delete(options): one call runs at a time; sv.pc is    *)
(* the request the call is waiting on.                                     *)
(***************************************************************************)
IdleSv ==
  [pc |-> "idle", op |-> "none", id |-> "", blob |-> <<>>, page |-> 1, ids |-> <<>>,
   pending |-> {}, i |-> 0, gen |-> 0, failed |-> FALSE]

\* The call returns: the history notes what ran and whether a request failed.
Returned(s) ==
  /\ hist' = [hist EXCEPT ![s.id] =
                Append(@, [op |-> s.op, blob |-> s.blob, ok |-> ~s.failed, gen |-> s.gen])]
  /\ sv' = IdleSv

\* deleteAllSessionFragments has returned: delete() is over, save() goes on
\* to read, compress, encode and split the artifact (lines 112-119).
AfterCleanup(s) ==
  IF s.op = "delete" \/ totalChunksOf(encodeBlob(s.blob)) = 0
  THEN Returned(s)
  ELSE /\ sv' = [s EXCEPT !.pc = "write", !.i = 0, !.ids = <<>>, !.pending = {}]
       /\ UNCHANGED hist

\* save(): the local <session>.zip does not exist (line 95): nothing is done.
SaveNoZip(id) ==
  /\ sv.pc = "idle"
  /\ UNCHANGED storeVars
  /\ UNCHANGED <<sessionVars, scanVars>>
  /\ UNCHANGED apiVars
  /\ UNCHANGED utilVars

\* save() is called with the local <session>.zip holding b.
SaveBegin(id, b) ==
  /\ sv.pc = "idle"
  /\ opCount < MaxOps
  /\ opCount' = opCount + 1
  /\ sv' = [IdleSv EXCEPT !.pc = "list", !.op = "save", !.id = id, !.blob = b,
                          !.gen = opCount + 1]
  /\ UNCHANGED <<records, nextId, hist, outFile, ex, exCount>>
  /\ UNCHANGED <<sessionVars, scanVars>>
  /\ UNCHANGED apiVars
  /\ UNCHANGED utilVars

\* delete() is called.
DeleteBegin(id) ==
  /\ sv.pc = "idle"
  /\ opCount < MaxOps
  /\ opCount' = opCount + 1
  /\ sv' = [IdleSv EXCEPT !.pc = "list", !.op = "delete", !.id = id, !.gen = opCount + 1]
  /\ UNCHANGED <<records, nextId, hist, outFile, ex, exCount>>
  /\ UNCHANGED <<sessionVars, scanVars>>
  /\ UNCHANGED apiVars
  /\ UNCHANGED utilVars

\* deleteAllSessionFragments: one page of the listing answers (lines 276-296).
ListPageOk ==
  /\ sv.pc = "list"
  /\ LET matching == bySession(sv.id)
         data == pageOf(matching, sv.page, DeletePageSize)
         ids == sv.ids \o idsOf(data)
         totalPages == pageCountOf(matching, DeletePageSize)
         s == [sv EXCEPT !.ids = ids, !.page = sv.page + 1]
     IN IF sv.page + 1 <= totalPages
        THEN sv' = s /\ UNCHANGED hist
        ELSE IF Len(ids) = 0
        THEN AfterCleanup(s)
        ELSE sv' = [s EXCEPT !.pc = "delete", !.pending = RangeOf(ids)] /\ UNCHANGED hist
  /\ UNCHANGED <<records, nextId, opCount, outFile, ex, exCount>>
  /\ UNCHANGED <<sessionVars, scanVars>>
  /\ UNCHANGED apiVars
  /\ UNCHANGED utilVars

\* The listing request fails: the catch of line 305 logs it and nothing is deleted.
ListPageFail ==
  /\ sv.pc = "list"
  /\ AfterCleanup([sv EXCEPT !.failed = TRUE])
  /\ UNCHANGED <<records, nextId, opCount, outFile, ex, exCount>>
  /\ UNCHANGED <<sessionVars, scanVars>>
  /\ UNCHANGED apiVars
  /\ UNCHANGED utilVars

\* One of the concurrent DELETE requests of lines 298-302 succeeds.
DeleteFragmentOk(rid) ==
  /\ sv.pc = "delete"
  /\ rid \in sv.pending
  /\ records' = withoutRecord(rid)
  /\ LET s == [sv EXCEPT !.pending = @ \ {rid}]
     IN IF s.pending = {} THEN AfterCleanup(s) ELSE sv' = s /\ UNCHANGED hist
  /\ UNCHANGED <<nextId, opCount, outFile, ex, exCount>>
  /\ UNCHANGED <<sessionVars, scanVars>>
  /\ UNCHANGED apiVars
  /\ UNCHANGED utilVars

\* A failed DELETE that makes the whole cleanup give up.
DeleteFragmentFailAborts(rid) ==
  /\ sv.pc = "delete"
  /\ rid \in sv.pending
  /\ AfterCleanup([sv EXCEPT !.pending = {}, !.failed = TRUE])
  /\ UNCHANGED <<records, nextId, opCount, outFile, ex, exCount>>
  /\ UNCHANGED <<sessionVars, scanVars>>
  /\ UNCHANGED apiVars
  /\ UNCHANGED utilVars

\* One of them fails: its own catch logs it, the others go on.
DeleteFragmentFail(rid) ==
  /\ sv.pc = "delete"
  /\ rid \in sv.pending
  /\ LET s == [sv EXCEPT !.pending = @ \ {rid}, !.failed = TRUE]
     IN IF s.pending = {} THEN AfterCleanup(s) ELSE sv' = s /\ UNCHANGED hist
  /\ UNCHANGED <<records, nextId, opCount, outFile, ex, exCount>>
  /\ UNCHANGED <<sessionVars, scanVars>>
  /\ UNCHANGED apiVars
  /\ UNCHANGED utilVars

\* A fragment that carries the number of fragments written so far as its total.
chunkDataCounted(s) ==
  LET base64Data == encodeBlob(s.blob)
  IN [id |-> nextId, session_id |-> s.id, active |-> TRUE, is_compressed |-> TRUE,
      chunk_index |-> s.i, total_chunks |-> s.i + 1,
      session_data |-> chunkOf(base64Data, s.i), gen |-> s.gen]

\* The fragment save() posts for chunk i (lines 124-132).
chunkData(s) ==
  LET base64Data == encodeBlob(s.blob)
  IN [id |-> nextId, session_id |-> s.id, active |-> TRUE, is_compressed |-> TRUE,
      chunk_index |-> s.i, total_chunks |-> totalChunksOf(base64Data),
      session_data |-> chunkOf(base64Data, s.i), gen |-> s.gen]

\* save(): the POST of fragment i succeeds (lines 123-139).
WriteFragmentOk ==
  /\ sv.pc = "write"
  /\ records' = Append(records, chunkData(sv))
  /\ nextId' = nextId + 1
  /\ LET s == [sv EXCEPT !.i = sv.i + 1]
     IN IF s.i < totalChunksOf(encodeBlob(sv.blob))
        THEN sv' = s /\ UNCHANGED hist
        ELSE Returned(s)
  /\ UNCHANGED <<opCount, outFile, ex, exCount>>
  /\ UNCHANGED <<sessionVars, scanVars>>
  /\ UNCHANGED apiVars
  /\ UNCHANGED utilVars

\* The POST fails: the catch of line 142 logs it and save() returns.
WriteFragmentFail ==
  /\ sv.pc = "write"
  /\ Returned([sv EXCEPT !.failed = TRUE])
  /\ UNCHANGED <<records, nextId, opCount, outFile, ex, exCount>>
  /\ UNCHANGED <<sessionVars, scanVars>>
  /\ UNCHANGED apiVars
  /\ UNCHANGED utilVars

(***************************************************************************)
(* save() calls that overlap: StrapiStore holds no lock, so a save() that  *)
(* is called while another one awaits a request runs alongside it.  cs[i]  *)
(* is the position of the i-th of these calls, as sv is for a single one.  *)
(***************************************************************************)
NumSavers == 2
Savers == 1..NumSavers
OverlapBlobs == {<<0>>, <<255>>}

\* deleteAllSessionFragments has returned: save() reads, encodes and splits
\* the artifact and starts to write (lines 112-123).
csAfterCleanup(s) ==
  IF totalChunksOf(encodeBlob(s.blob)) = 0
  THEN [s EXCEPT !.pc = "done"]
  ELSE [s EXCEPT !.pc = "write", !.i = 0, !.ids = <<>>, !.pending = {}]

\* The i-th save() is called with the local <session>.zip holding b.
OverlapSaveBegin(i, id, b) ==
  /\ cs[i] = IdleSv
  /\ cs' = [cs EXCEPT ![i] = [IdleSv EXCEPT !.pc = "list", !.op = "save", !.id = id,
                                            !.blob = b, !.gen = i]]
  /\ UNCHANGED <<storeVars, sessionVars, scanVars, apiVars, ws, rt, wl>>

\* One page of its listing answers (lines 276-296).
OverlapListPageOk(i) ==
  /\ cs[i].pc = "list"
  /\ LET matching == bySession(cs[i].id)
         data == pageOf(matching, cs[i].page, DeletePageSize)
         ids == cs[i].ids \o idsOf(data)
         totalPages == pageCountOf(matching, DeletePageSize)
         s == [cs[i] EXCEPT !.ids = ids, !.page = cs[i].page + 1]
     IN cs' = [cs EXCEPT ![i] =
                 IF cs[i].page + 1 <= totalPages THEN s
                 ELSE IF Len(ids) = 0 THEN csAfterCleanup(s)
                 ELSE [s EXCEPT !.pc = "delete", !.pending = RangeOf(ids)]]
  /\ UNCHANGED <<storeVars, sessionVars, scanVars, apiVars, ws, rt, wl>>

\* Its listing request fails (line 305).
OverlapListPageFail(i) ==
  /\ cs[i].pc = "list"
  /\ cs' = [cs EXCEPT ![i] = csAfterCleanup([cs[i] EXCEPT !.failed = TRUE])]
  /\ UNCHANGED <<storeVars, sessionVars, scanVars, apiVars, ws, rt, wl>>

\* One of its DELETE requests succeeds on a record the store still holds
\* (lines 298-302).
OverlapDeleteOk(i, rid) ==
  /\ cs[i].pc = "delete"
  /\ rid \in cs[i].pending
  /\ \E k \in 1..Len(records) : records[k].id = rid
  /\ records' = withoutRecord(rid)
  /\ LET s == [cs[i] EXCEPT !.pending = @ \ {rid}]
     IN cs' = [cs EXCEPT ![i] = IF s.pending = {} THEN csAfterCleanup(s) ELSE s]
  /\ UNCHANGED <<nextId, sv, hist, opCount, outFile, ex, exCount>>
  /\ UNCHANGED <<sessionVars, scanVars, apiVars, ws, rt, wl>>

\* One of them fails, as it does when the other call has deleted the record.
OverlapDeleteFail(i, rid) ==
  /\ cs[i].pc = "delete"
  /\ rid \in cs[i].pending
  /\ LET s == [cs[i] EXCEPT !.pending = @ \ {rid}, !.failed = TRUE]
     IN cs' = [cs EXCEPT ![i] = IF s.pending = {} THEN csAfterCleanup(s) ELSE s]
  /\ UNCHANGED <<storeVars, sessionVars, scanVars, apiVars, ws, rt, wl>>

\* The POST of its next fragment succeeds (lines 123-139).
OverlapWriteOk(i) ==
  /\ cs[i].pc = "write"
  /\ records' = Append(records, chunkData(cs[i]))
  /\ nextId' = nextId + 1
  /\ LET s == [cs[i] EXCEPT !.i = cs[i].i + 1]
     IN cs' = [cs EXCEPT ![i] =
                 IF s.i < totalChunksOf(encodeBlob(s.blob)) THEN s
                 ELSE [s EXCEPT !.pc = "done"]]
  /\ UNCHANGED <<sv, hist, opCount, outFile, ex, exCount>>
  /\ UNCHANGED <<sessionVars, scanVars, apiVars, ws, rt, wl>>

\* The POST fails: the catch of line 142 logs it and the call returns.
OverlapWriteFail(i) ==
  /\ cs[i].pc = "write"
  /\ cs' = [cs EXCEPT ![i] = [cs[i] EXCEPT !.pc = "done", !.failed = TRUE]]
  /\ UNCHANGED <<storeVars, sessionVars, scanVars, apiVars, ws, rt, wl>>

(***************************************************************************)
(* withConcurrencyLimit(items, fn, maxConcurrent) (RetryHelper.ts 119-164).*)
(* Items are numbered from 0.  wl.inFlight holds the items whose fn has    *)
(* been invoked and is not settled: one per processor that still runs.     *)
(***************************************************************************)
MaxItems == 4
MaxConcurrentArg == 3
ItemIndexes == 0..(MaxItems - 1)
ConcurrencyArgs == (-1)..MaxConcurrentArg

IdleWl ==
  [pc |-> "idle", n |-> 0, maxConcurrent |-> 0, currentIndex |-> 0, inFlight |-> {},
   invoked |-> [k \in ItemIndexes |-> 0], results |-> [k \in ItemIndexes |-> "unset"],
   peak |-> 0]

\* A call that starts a processor for every item, whatever the limit.
processorsUnlimited(n, maxConcurrent) == n

\* Math.min(items.length, maxConcurrent) (line 152)
processorsOf(n, maxConcurrent) == Smaller(n, maxConcurrent)

\* Promise.all(processors) resolves once no processor runs (lines 157-163).
wlSettle(w) == IF w.inFlight = {} THEN [w EXCEPT !.pc = "resolved"] ELSE w

\* The call: Array(m) throws a RangeError for a negative m and the call
\* rejects (line 152); otherwise each of the m processors takes the next index
\* and invokes fn on its item before the call first awaits (lines 132-157).
WithConcurrencyLimit(n, maxConcurrent) ==
  /\ wl = IdleWl
  /\ LET m == processorsOf(n, maxConcurrent)
         started == 0..(m - 1)
     IN wl' = IF m < 0
              THEN [IdleWl EXCEPT !.pc = "rejected", !.n = n,
                                  !.maxConcurrent = maxConcurrent]
              ELSE wlSettle([IdleWl EXCEPT !.pc = "running", !.n = n,
                                           !.maxConcurrent = maxConcurrent,
                                           !.currentIndex = m, !.inFlight = started,
                                           !.invoked = [k \in ItemIndexes |->
                                                          IF k \in started THEN 1 ELSE 0],
                                           !.peak = m])
  /\ UNCHANGED <<storeVars, sessionVars, scanVars, apiVars, ws, rt, cs>>

\* processNext() after the fn of item k has settled with outcome r: the result
\* is stored at k and the processor takes the next index; past the last item
\* it ends (lines 132-149).
wlProcessNext(k, r) ==
  LET index == wl.currentIndex
      stored == [wl EXCEPT !.results[k] = r, !.currentIndex = index + 1,
                           !.inFlight = @ \ {k}]
  IN IF index >= wl.n THEN wlSettle(stored)
     ELSE [stored EXCEPT !.inFlight = @ \cup {index}, !.invoked[index] = @ + 1,
                         !.peak = IF Cardinality(stored.inFlight) + 1 > @
                                  THEN Cardinality(stored.inFlight) + 1 ELSE @]

\* fn(items[k], k) resolves (lines 140-141).
WlFnOk(k) ==
  /\ wl.pc = "running"
  /\ k \in wl.inFlight
  /\ wl' = wlProcessNext(k, "value")
  /\ UNCHANGED <<storeVars, sessionVars, scanVars, apiVars, ws, rt, cs>>

\* fn(items[k], k) rejects: null is stored (lines 142-145).
WlFnFail(k) ==
  /\ wl.pc = "running"
  /\ k \in wl.inFlight
  /\ wl' = wlProcessNext(k, "null")
  /\ UNCHANGED <<storeVars, sessionVars, scanVars, apiVars, ws, rt, cs>>

(***************************************************************************)
(* extract(options): one GET, then the reconstruction (lines 154-250).     *)
(***************************************************************************)
NoFile == [present |-> FALSE, bytes |-> <<>>]
FileOf(bytes) == [present |-> TRUE, bytes |-> bytes]

NoOp == [op |-> "none", blob |-> <<>>, ok |-> TRUE, gen |-> 0]
lastOp(id) == IF Len(hist[id]) = 0 THEN NoOp ELSE hist[id][Len(hist[id])]

NoExtract ==
  [id |-> "", result |-> "init", gens |-> {}, indices |-> <<>>, warned |-> FALSE,
   busy |-> FALSE, last |-> NoOp]

\* What extract() has seen and when: the fragments' save generations and chunk
\* indices, whether a save()/delete() of the id was running, and the last call
\* on the id that had returned.
Extracted(id, result, fragments) ==
  [id |-> id, result |-> result,
   gens |-> {fragments[k].gen : k \in 1..Len(fragments)},
   indices |-> [k \in 1..Len(fragments) |-> fragments[k].chunk_index],
   warned |-> Len(fragments) > 0 /\ fragments[1].total_chunks # Len(fragments),
   busy |-> sv.pc # "idle" /\ sv.id = id,
   last |-> lastOp(id)]

\* The fragments the GET of lines 173-180 returns, sorted again at line 201.
fetchedFragments(id) ==
  sortByChunkIndex(pageOf(sortByChunkIndex(activeBySession(id)), 1, ExtractPageSize))

RECURSIVE joinData(_)
joinData(fragments) ==
  IF Len(fragments) = 0 THEN <<>>
  ELSE fragments[1].session_data \o joinData(Tail(fragments))

\* Lines 211-230: concatenate, decode, gunzip when a fragment says compressed,
\* and fall back to the decoded bytes when gunzip throws.
reconstruct(fragments) ==
  LET dataBuffer == fromBase64(joinData(fragments))
      isCompressed == \E k \in 1..Len(fragments) : fragments[k].is_compressed
  IN IF isCompressed /\ ~gunzipFails(dataBuffer) THEN gunzipSync(dataBuffer) ELSE dataBuffer

\* options.path is missing: extract() throws (line 160).
ExtractNoPath(id) ==
  /\ exCount < MaxExtracts
  /\ exCount' = exCount + 1
  /\ ex' = Extracted(id, "threw", <<>>)
  /\ UNCHANGED <<records, nextId, sv, hist, opCount, outFile>>
  /\ UNCHANGED <<sessionVars, scanVars>>
  /\ UNCHANGED apiVars
  /\ UNCHANGED utilVars

\* The GET fails: the catch of line 244 logs it, the local file is left as it is.
ExtractFail(id) ==
  /\ exCount < MaxExtracts
  /\ exCount' = exCount + 1
  /\ ex' = Extracted(id, "error", <<>>)
  /\ UNCHANGED <<records, nextId, sv, hist, opCount, outFile>>
  /\ UNCHANGED <<sessionVars, scanVars>>
  /\ UNCHANGED apiVars
  /\ UNCHANGED utilVars

\* The GET answers.
ExtractOk(id) ==
  /\ exCount < MaxExtracts
  /\ exCount' = exCount + 1
  /\ LET fragments == fetchedFragments(id)
     IN IF Len(fragments) = 0
        THEN /\ ex' = Extracted(id, "none", fragments)
             /\ UNCHANGED outFile
        ELSE /\ ex' = Extracted(id, "wrote", fragments)
             /\ outFile' = FileOf(reconstruct(fragments))
  /\ UNCHANGED <<records, nextId, sv, hist, opCount>>
  /\ UNCHANGED <<sessionVars, scanVars>>
  /\ UNCHANGED apiVars
  /\ UNCHANGED utilVars

(***************************************************************************)
(* SimpleWhatsAppService: names, chats and target resolution.  A name is   *)
(* a sequence of characters.                                               *)
(***************************************************************************)
toLowerChar(ch) == IF ch = "A" THEN "a" ELSE IF ch = "B" THEN "b" ELSE ch
toLowerCase(name) == [k \in 1..Len(name) |-> toLowerChar(name[k])]

\* String.prototype.includes
includes(hay, needle) ==
  \E k \in 0..(Len(hay) - Len(needle)) : SubSeq(hay, k + 1, k + Len(needle)) = needle

\* The predicate of allGroups.find (lines 432-435).
matchesTarget(g, groupName) ==
  \/ toLowerCase(g.name) = toLowerCase(groupName)
  \/ includes(toLowerCase(g.name), toLowerCase(groupName))

\* Array.prototype.find: the position of the first match, 0 when there is none.
findGroup(allGroups, groupName) ==
  LET hits == {k \in 1..Len(allGroups) : matchesTarget(allGroups[k], groupName)}
  IN IF hits = {} THEN 0 ELSE MinOf(hits)

\* allChats.filter(chat => chat.isGroup) (line 412)
groupsOf(allChats) == SelectSeq(allChats, LAMBDA chat : chat.isGroup)

Chat(name, isGroup, participants) ==
  [name |-> name, isGroup |-> isGroup, participants |-> participants]

\* What client.getChats() may answer, and the batches the callers ask for.
ChatAb == Chat(<<"A", "b">>, TRUE, <<"5491101", "5491102">>)
ChatAbc == Chat(<<"a", "b", "c">>, TRUE, <<"5491103">>)
ChatZ == Chat(<<"z">>, FALSE, <<>>)
ChatLists == {<<ChatZ, ChatAbc, ChatAb>>}
TargetLists == {<<>>, <<<<"a", "b">>, <<"q">>, <<"b", "c">>>>}
GroupNames == {ChatAb.name, ChatAbc.name}

\* participants.map(...) of lines 446-460: one member per participant.
membersOf(foundGroup) ==
  [k \in 1..Len(foundGroup.participants) |->
     [phoneNumber |-> foundGroup.participants[k], isActive |-> TRUE,
      groupName |-> foundGroup.name]]

(***************************************************************************)
(* SimpleWhatsAppService: the session.                                     *)
(***************************************************************************)
Callers == 1..NumCallers
Clients == 1..MaxClients

\* maxRetries and retryDelayMs, the defaults of initialize()'s parameters.
maxRetries == 3
retryDelayMs == 5000

\* The wait before the attempt that follows retryCount failed ones (line 151).
retryDelay(retryCount) == retryDelayMs * (retryCount + 1)

\* ini.caller is 0 for a call from the HTTP controllers, c for one from the
\* scanGroups() call of caller c.  ini.target is the client whose initialize()
\* or destroy() the call awaits, ini.delay the wait of line 151 the call is in
\* or went through last (0 before the first attempt, which has none).
IdleIni == [pc |-> "idle", caller |-> 0, retryCount |-> 0, target |-> 0, delay |-> 0]

IdleCall ==
  [pc |-> "idle", names |-> <<>>, k |-> 0, allGroups |-> <<>>, results |-> {},
   failedGroups |-> <<>>, timer |-> FALSE, found |-> 0, members |-> <<>>,
   fetched |-> {}]

\* scheduleAutoClose (lines 1012-1035) and cancelAutoClose (lines 1040-1046).
scheduleAutoClose == IF autoCloseEnabled THEN "armed" ELSE "null"
cancelAutoClose == "null"

\* scanGroups() goes on after `await this.initialize()` (lines 361-368): it
\* rejects with initialize()'s error, or checks the authentication.
afterInitialize(call, resolved) ==
  IF ~resolved THEN [call EXCEPT !.pc = "rejectedInit"]
  ELSE IF ~isAuthenticated THEN [call EXCEPT !.pc = "rejectedAuth"]
  ELSE [call EXCEPT !.pc = "wait5s"]

resumeCaller(resolved) ==
  IF ini.caller = 0 THEN sc
  ELSE [sc EXCEPT ![ini.caller] = afterInitialize(@, resolved)]

\* initialize() past its guards (lines 114-121), then either the old client
\* is destroyed first (lines 132-143) or the first client is created and
\* started (lines 160-198).
InitStart(caller) ==
  /\ initCalls < MaxInits
  /\ client = 0 => clientsCreated < MaxClients
  /\ initCalls' = initCalls + 1
  /\ isInitializing' = TRUE
  /\ authError' = "null"
  /\ authTimeoutTimer' = "armed"
  /\ IF client # 0
     THEN /\ ini' = [pc |-> "destroyOld", caller |-> caller, retryCount |-> 0,
                     target |-> client, delay |-> 0]
          /\ UNCHANGED <<client, live, clientsCreated>>
     ELSE /\ clientsCreated' = clientsCreated + 1
          /\ client' = clientsCreated + 1
          /\ live' = live \cup {clientsCreated + 1}
          /\ ini' = [pc |-> "starting", caller |-> caller, retryCount |-> 0,
                     target |-> clientsCreated + 1, delay |-> 0]
  /\ UNCHANGED <<pupPage, qrCode, isAuthenticated, autoCloseTimeout, autoCloseEnabled,
                 closing>>

\* An early return for an authenticated client only.
guardOnlyAuthenticated == client # 0 /\ isAuthenticated

\* The two early returns of initialize() (lines 104-112).
returnsAtOnce == isInitializing \/ (client # 0 /\ isAuthenticated)

\* What the last call returned: the operation, and for getScanProgress() the
\* object it answered.
NoProgress ==
  [total |-> 0, completed |-> 0, successful |-> 0, failed |-> 0, failedGroups |-> <<>>]
NoReturn == [op |-> "none", value |-> NoProgress, percent |-> 0]
answered(op) == [op |-> op, value |-> NoProgress, percent |-> 0]

\* initialize() called by a controller.
ApiInitialize ==
  /\ ~returnsAtOnce
  /\ InitStart(0)
  /\ ret' = answered("initialize: started")
  /\ UNCHANGED <<storeVars, scanVars>>
  /\ UNCHANGED <<sessionDir, lo, closeCalls>>
  /\ UNCHANGED utilVars

\* initialize() called while one is in progress, or with an authenticated
\* client: it returns at once (lines 104-112).
ApiInitializeNoop ==
  /\ returnsAtOnce
  /\ ret' = answered("initialize: at once")
  /\ UNCHANGED <<storeVars, sessionVars, scanVars>>
  /\ UNCHANGED <<sessionDir, lo, closeCalls>>
  /\ UNCHANGED utilVars

\* The old client is destroyed (lines 135-138).
DestroyOldDone ==
  /\ ini.pc = "destroyOld"
  /\ live' = live \ {ini.target}
  /\ pupPage' = pupPage \ {ini.target}
  /\ client' = 0
  /\ ini' = [ini EXCEPT !.pc = "create", !.target = 0]
  /\ UNCHANGED <<clientsCreated, qrCode, isAuthenticated, authError, isInitializing,
                 autoCloseTimeout, authTimeoutTimer, autoCloseEnabled, initCalls, closing>>
  /\ UNCHANGED <<storeVars, scanVars>>
  /\ UNCHANGED apiVars
  /\ UNCHANGED utilVars

\* After the wait a client is created, its events are set up and its
\* initialize() is called (lines 148-198).
CreateClient ==
  /\ ini.pc = "create"
  /\ clientsCreated < MaxClients
  /\ clientsCreated' = clientsCreated + 1
  /\ client' = clientsCreated + 1
  /\ live' = live \cup {clientsCreated + 1}
  /\ ini' = [ini EXCEPT !.pc = "starting", !.target = clientsCreated + 1]
  /\ UNCHANGED <<pupPage, qrCode, isAuthenticated, authError, isInitializing,
                 autoCloseTimeout, authTimeoutTimer, autoCloseEnabled, initCalls, closing>>
  /\ UNCHANGED <<storeVars, scanVars>>
  /\ UNCHANGED apiVars
  /\ UNCHANGED utilVars

\* initialize() resolves (lines 222-223 and the finally of line 270).
InitResolved ==
  /\ isInitializing' = FALSE
  /\ ini' = IdleIni
  /\ sc' = resumeCaller(TRUE)
  /\ UNCHANGED <<client, live, authError>>

\* A rejection after the last attempt that records no error.
AttemptFailedSilently ==
  IF ini.retryCount + 1 >= maxRetries
  THEN /\ isInitializing' = FALSE
       /\ ini' = IdleIni
       /\ sc' = resumeCaller(FALSE)
       /\ UNCHANGED authError
  ELSE /\ ini' = [ini EXCEPT !.pc = "create", !.retryCount = @ + 1, !.target = 0,
                              !.delay = retryDelay(ini.retryCount + 1)]
       /\ UNCHANGED <<authError, isInitializing, sc>>

\* The catch of lines 225-252 once the failed client is out of the way: the
\* next attempt, or the rejection (lines 255-272).
AttemptFailed ==
  IF ini.retryCount + 1 >= maxRetries
  THEN /\ authError' = "init"
       /\ isInitializing' = FALSE
       /\ ini' = IdleIni
       /\ sc' = resumeCaller(FALSE)
  ELSE /\ ini' = [ini EXCEPT !.pc = "create", !.retryCount = @ + 1, !.target = 0,
                              !.delay = retryDelay(ini.retryCount + 1)]
       /\ UNCHANGED <<authError, isInitializing, sc>>

\* The attempt threw: the client it left in this.client is destroyed first
\* (lines 237-244).
AttemptThrew ==
  IF client # 0
  THEN /\ ini' = [ini EXCEPT !.pc = "destroyFailed", !.target = client]
       /\ UNCHANGED <<authError, isInitializing, sc>>
  ELSE AttemptFailed

\* client.initialize() resolves (line 198).
StartOk ==
  /\ ini.pc = "starting"
  /\ ini.target \in live
  /\ pupPage' = pupPage \cup {ini.target}
  /\ ini' = [ini EXCEPT !.pc = "settle"]
  /\ UNCHANGED <<client, live, clientsCreated, qrCode, isAuthenticated, authError,
                 isInitializing, autoCloseTimeout, authTimeoutTimer, autoCloseEnabled,
                 initCalls, closing>>
  /\ UNCHANGED <<storeVars, scanVars>>
  /\ UNCHANGED apiVars
  /\ UNCHANGED utilVars

\* client.initialize() rejects.
StartFail ==
  /\ ini.pc = "starting"
  /\ AttemptThrew
  /\ UNCHANGED <<client, live, pupPage, clientsCreated, qrCode, isAuthenticated,
                 autoCloseTimeout, authTimeoutTimer, autoCloseEnabled, initCalls, closing>>
  /\ UNCHANGED <<storeVars, previousMembers, scanning, scanProgressData, orphans, forwarded>>
  /\ UNCHANGED apiVars
  /\ UNCHANGED utilVars

\* After the 5 s wait (lines 201-220): the client must still be there with its
\* page; with a stored session the call polls for the authentication.
SettleDone(sessionExists) ==
  /\ ini.pc = "settle"
  /\ IF client = 0 \/ client \notin pupPage
     THEN AttemptThrew
     ELSE IF sessionExists /\ ~isAuthenticated
     THEN /\ ini' = [ini EXCEPT !.pc = "poll"]
          /\ UNCHANGED <<authError, isInitializing, sc>>
     ELSE InitResolved
  /\ UNCHANGED <<client, live, pupPage, clientsCreated, qrCode, isAuthenticated,
                 autoCloseTimeout, authTimeoutTimer, autoCloseEnabled, initCalls, closing>>
  /\ UNCHANGED <<storeVars, previousMembers, scanning, scanProgressData, orphans, forwarded>>
  /\ UNCHANGED apiVars
  /\ UNCHANGED utilVars

\* The polling loop of lines 213-219 ends.
PollDone ==
  /\ ini.pc = "poll"
  /\ InitResolved
  /\ UNCHANGED <<pupPage, clientsCreated, qrCode, isAuthenticated, autoCloseTimeout,
                 authTimeoutTimer, autoCloseEnabled, initCalls, closing>>
  /\ UNCHANGED <<storeVars, previousMembers, scanning, scanProgressData, orphans, forwarded>>
  /\ UNCHANGED apiVars
  /\ UNCHANGED utilVars

\* The failed client is destroyed and the handle cleared (lines 239-243).
DestroyFailedDone ==
  /\ ini.pc = "destroyFailed"
  /\ live' = live \ {ini.target}
  /\ pupPage' = pupPage \ {ini.target}
  /\ client' = 0
  /\ AttemptFailed
  /\ UNCHANGED <<clientsCreated, qrCode, isAuthenticated, autoCloseTimeout,
                 authTimeoutTimer, autoCloseEnabled, initCalls, closing>>
  /\ UNCHANGED <<storeVars, previousMembers, scanning, scanProgressData, orphans, forwarded>>
  /\ UNCHANGED apiVars
  /\ UNCHANGED utilVars

(***************************************************************************)
(* The client's events (setupEvents, lines 1051-1103).  A client that      *)
(* reports on its page has opened it.                                      *)
(***************************************************************************)
OnQr(cl) ==
  /\ cl \in live
  /\ qrCode' = "qr"
  /\ isAuthenticated' = FALSE
  /\ pupPage' = pupPage \cup {cl}
  /\ UNCHANGED <<client, live, clientsCreated, authError, isInitializing, autoCloseTimeout,
                 authTimeoutTimer, autoCloseEnabled, ini, initCalls, closing>>
  /\ UNCHANGED <<storeVars, scanVars>>
  /\ UNCHANGED apiVars
  /\ UNCHANGED utilVars

OnAuthenticated(cl) ==
  /\ cl \in live
  /\ isAuthenticated' = TRUE
  /\ qrCode' = "null"
  /\ authError' = "null"
  /\ authTimeoutTimer' = "null"
  /\ pupPage' = pupPage \cup {cl}
  /\ UNCHANGED <<client, live, clientsCreated, isInitializing, autoCloseTimeout,
                 autoCloseEnabled, ini, initCalls, closing>>
  /\ UNCHANGED <<storeVars, scanVars>>
  /\ UNCHANGED apiVars
  /\ UNCHANGED utilVars

OnAuthFailure(cl) ==
  /\ cl \in live
  /\ authError' = "auth_failure"
  /\ isAuthenticated' = FALSE
  /\ UNCHANGED <<client, live, pupPage, clientsCreated, qrCode, isInitializing,
                 autoCloseTimeout, authTimeoutTimer, autoCloseEnabled, ini, initCalls, closing>>
  /\ UNCHANGED <<storeVars, scanVars>>
  /\ UNCHANGED apiVars
  /\ UNCHANGED utilVars

OnReady(cl) ==
  /\ cl \in live
  /\ isAuthenticated' = TRUE
  /\ authError' = "null"
  /\ pupPage' = pupPage \cup {cl}
  /\ UNCHANGED <<client, live, clientsCreated, qrCode, isInitializing, autoCloseTimeout,
                 authTimeoutTimer, autoCloseEnabled, ini, initCalls, closing>>
  /\ UNCHANGED <<storeVars, scanVars>>
  /\ UNCHANGED apiVars
  /\ UNCHANGED utilVars

OnDisconnected(cl) ==
  /\ cl \in live
  /\ isAuthenticated' = FALSE
  /\ UNCHANGED <<client, live, pupPage, clientsCreated, qrCode, authError, isInitializing,
                 autoCloseTimeout, authTimeoutTimer, autoCloseEnabled, ini, initCalls, closing>>
  /\ UNCHANGED <<storeVars, scanVars>>
  /\ UNCHANGED apiVars
  /\ UNCHANGED utilVars

(***************************************************************************)
(* close(true): cancelAutoClose, then softClose (lines 948-1007).          *)
(***************************************************************************)
\* softClose up to its `await this.client.destroy()`, or all of it when there
\* is no client.
softCloseStart ==
  IF client # 0
  THEN /\ closing' = [closing EXCEPT ![client] = @ + 1]
       /\ UNCHANGED <<isAuthenticated, qrCode>>
  ELSE /\ isAuthenticated' = FALSE
       /\ qrCode' = "null"
       /\ UNCHANGED closing

\* The auth-timeout timer fires (lines 1361-1370).
AuthTimeoutFires ==
  /\ authTimeoutTimer = "armed"
  /\ authTimeoutTimer' = "fired"
  /\ IF ~isAuthenticated
     THEN autoCloseTimeout' = cancelAutoClose /\ softCloseStart
     ELSE UNCHANGED <<autoCloseTimeout, closing, isAuthenticated, qrCode>>
  /\ UNCHANGED <<client, live, pupPage, clientsCreated, authError, isInitializing,
                 autoCloseEnabled, ini, initCalls>>
  /\ UNCHANGED <<storeVars, scanVars>>
  /\ UNCHANGED apiVars
  /\ UNCHANGED utilVars

\* The idle auto-close timer fires (lines 1027-1031).
AutoCloseFires ==
  /\ autoCloseTimeout = "armed"
  /\ autoCloseTimeout' = cancelAutoClose
  /\ softCloseStart
  /\ UNCHANGED <<client, live, pupPage, clientsCreated, authError, isInitializing,
                 authTimeoutTimer, autoCloseEnabled, ini, initCalls>>
  /\ UNCHANGED <<storeVars, scanVars>>
  /\ UNCHANGED apiVars
  /\ UNCHANGED utilVars

\* softClose after the destroy (lines 990-997).
SoftCloseDone(cl) ==
  /\ closing[cl] > 0
  /\ closing' = [closing EXCEPT ![cl] = @ - 1]
  /\ live' = live \ {cl}
  /\ pupPage' = pupPage \ {cl}
  /\ client' = 0
  /\ isAuthenticated' = FALSE
  /\ qrCode' = "null"
  /\ UNCHANGED <<clientsCreated, authError, isInitializing, autoCloseTimeout,
                 authTimeoutTimer, autoCloseEnabled, ini, initCalls>>
  /\ UNCHANGED <<storeVars, scanVars>>
  /\ UNCHANGED apiVars
  /\ UNCHANGED utilVars

(***************************************************************************)
(* close(false), the call of the controllers: cancelAutoClose, then        *)
(* logout() (lines 948-971, 1203-1249).  lo.target is the client whose     *)
(* logout() or destroy() the call awaits.                                  *)
(***************************************************************************)
IdleLo == [pc |-> "idle", target |-> 0]

\* logout() past the client (lines 1230-1239): the state is reset and the
\* call waits 2 s, then cleans the local session.
logoutReset ==
  /\ isAuthenticated' = FALSE
  /\ qrCode' = "null"
  /\ lo' = [pc |-> "clean", target |-> 0]

\* close() is called with no argument; one such call runs at a time.
ApiClose ==
  /\ closeCalls < MaxCloses
  /\ lo.pc = "idle"
  /\ closeCalls' = closeCalls + 1
  /\ autoCloseTimeout' = cancelAutoClose
  /\ IF client # 0
     THEN /\ lo' = [pc |-> "logout", target |-> client]
          /\ UNCHANGED <<isAuthenticated, qrCode>>
     ELSE logoutReset
  /\ UNCHANGED <<client, live, pupPage, clientsCreated, authError, isInitializing,
                 authTimeoutTimer, autoCloseEnabled, ini, initCalls, closing>>
  /\ UNCHANGED <<storeVars, scanVars>>
  /\ UNCHANGED <<sessionDir, ret>>
  /\ UNCHANGED utilVars

\* client.logout() settles (lines 1211-1215); the library's logout may have
\* removed the session directory.  The client then in this.client is
\* destroyed; with none there the TypeError is caught (lines 1217-1227).
LogoutDone(removed) ==
  /\ lo.pc = "logout"
  /\ sessionDir' = (sessionDir /\ ~removed)
  /\ IF client # 0
     THEN /\ lo' = [pc |-> "destroy", target |-> client]
          /\ UNCHANGED <<isAuthenticated, qrCode>>
     ELSE logoutReset
  /\ UNCHANGED <<client, live, pupPage, clientsCreated, authError, isInitializing,
                 autoCloseTimeout, authTimeoutTimer, autoCloseEnabled, ini, initCalls,
                 closing>>
  /\ UNCHANGED <<storeVars, scanVars>>
  /\ UNCHANGED <<closeCalls, ret>>
  /\ UNCHANGED utilVars

\* The destroy() of logout() settles and the handle is cleared (lines
\* 1220-1239).
LogoutDestroyDone ==
  /\ lo.pc = "destroy"
  /\ live' = live \ {lo.target}
  /\ pupPage' = pupPage \ {lo.target}
  /\ client' = 0
  /\ logoutReset
  /\ UNCHANGED <<clientsCreated, authError, isInitializing, autoCloseTimeout,
                 authTimeoutTimer, autoCloseEnabled, ini, initCalls, closing>>
  /\ UNCHANGED <<storeVars, scanVars>>
  /\ UNCHANGED <<sessionDir, closeCalls, ret>>
  /\ UNCHANGED utilVars

\* cleanLocalSession keeping the directory whatever deleteDir does.
cleanKeeps(dir, deleted) == dir

\* cleanLocalSession (lines 1255-1290): deleteDir removes the directory or
\* fails, and its failure is logged only (lines 1130-1197, 1271-1286).
cleanLocalSession(dir, deleted) == dir /\ ~deleted

\* After the 2 s wait the local session is cleaned and close() returns
\* (lines 1239-1244, 966).
CleanDone(deleted) ==
  /\ lo.pc = "clean"
  /\ sessionDir' = cleanLocalSession(sessionDir, deleted)
  /\ lo' = IdleLo
  /\ ret' = answered("close")
  /\ UNCHANGED <<storeVars, sessionVars, scanVars>>
  /\ UNCHANGED closeCalls
  /\ UNCHANGED utilVars

\* The LocalAuth strategy of a live client writes the session directory.
SessionSaved(cl) ==
  /\ cl \in live
  /\ ~sessionDir
  /\ sessionDir' = TRUE
  /\ UNCHANGED <<storeVars, sessionVars, scanVars>>
  /\ UNCHANGED <<lo, closeCalls, ret>>
  /\ UNCHANGED utilVars

(***************************************************************************)
(* getScanProgress (lines 1320-1336).                                      *)
(***************************************************************************)
\* The pairs <<completed, total>> up to total = 202 for which the double
\* (completed / total) * 100 lies just under a half that the exact quotient
\* reaches: Math.round takes it down.
UnderHalf ==
  {<<23, 40>>, <<46, 80>>, <<69, 120>>, <<92, 160>>, <<29, 200>>, <<57, 200>>,
   <<113, 200>>, <<115, 200>>}

\* Math.round((completed / total) * 100): the nearest integer, a half going up.
roundPercent(completed, total) ==
  ((200 * completed + total) \div (2 * total))
    - (IF <<completed, total>> \in UnderHalf THEN 1 ELSE 0)

percentOf(prog) ==
  IF prog.total > 0 THEN roundPercent(prog.completed, prog.total) ELSE 0

GetScanProgress ==
  /\ ret' = [op |-> "getScanProgress", value |-> scanProgressData,
             percent |-> percentOf(scanProgressData)]
  /\ UNCHANGED <<storeVars, sessionVars, scanVars>>
  /\ UNCHANGED <<sessionDir, lo, closeCalls>>
  /\ UNCHANGED utilVars

(***************************************************************************)
(* SimpleWhatsAppService.scanGroups (lines 357-540).  sc[c] is the call of *)
(* caller c: where it stands (pc), its arguments and locals, and the       *)
(* targets whose participants it has asked for (fetched).                  *)
(***************************************************************************)
\* results[key] = info
putResult(results, key, name, members) ==
  {r \in results : r.key # key} \cup {[key |-> key, name |-> name, members |-> members]}

\* A failure that is not entered in failedGroups and keeps no result.
itemFailedUnlisted(s) ==
  [s EXCEPT !.timer = FALSE, !.found = 0, !.members = <<>>, !.k = @ + 1]

\* The else branch of lines 494-503 and the update of line 506.
itemFailed(s) ==
  [s EXCEPT !.failedGroups = Append(@, s.names[s.k]),
            !.results = putResult(@, s.names[s.k], s.names[s.k], <<>>),
            !.timer = FALSE, !.found = 0, !.members = <<>>, !.k = @ + 1]
progressFailed(prog, groupName) ==
  [prog EXCEPT !.failedGroups = Append(@, groupName), !.failed = @ + 1,
               !.completed = @ + 1]

\* The then branch of lines 490-493 and the update of line 506.
itemSucceeded(s) ==
  [s EXCEPT !.results = putResult(@, s.names[s.k], s.allGroups[s.found].name, s.members),
            !.timer = FALSE, !.found = 0, !.members = <<>>, !.k = @ + 1]
progressSucceeded(prog) ==
  [prog EXCEPT !.successful = @ + 1, !.completed = @ + 1]

\* A fetch begun without its timer.
beginFetchUntimed(s, foundGroup) ==
  [s EXCEPT !.pc = "fetch", !.found = foundGroup, !.timer = FALSE,
            !.fetched = @ \cup {s.names[s.k]}]

\* A resolved target: the timer is armed (lines 425-428) and the participants
\* of the group found are awaited (line 443).
beginFetch(s, foundGroup) ==
  [s EXCEPT !.pc = "fetch", !.found = foundGroup, !.timer = TRUE,
            !.fetched = @ \cup {s.names[s.k]}]

\* The loop of lines 419-518 from target s.k on, up to its next wait: a
\* target that allGroups.find does not resolve is recorded as failed in the
\* same turn (lines 437-439, 480-484, 494-506); for a resolved one the timer
\* is armed and the participants are awaited (lines 425-443); past the last
\* target the call returns (lines 520-530).
RECURSIVE runItems(_, _)
runItems(s, prog) ==
  IF s.k > Len(s.names)
  THEN [s |-> [s EXCEPT !.pc = "resolved"], prog |-> prog]
  ELSE LET groupName == s.names[s.k]
           foundGroup == findGroup(s.allGroups, groupName)
       IN IF foundGroup = 0
          THEN runItems(itemFailed(s), progressFailed(prog, groupName))
          ELSE [s |-> beginFetch(s, foundGroup), prog |-> prog]

\* The call of caller c goes on from s: lines 419-530.
Advance(c, s, prog) ==
  LET r == runItems(s, prog)
  IN /\ sc' = [sc EXCEPT ![c] = r.s]
     /\ scanProgressData' = r.prog
     /\ scanning' = IF r.s.pc = "resolved" THEN FALSE ELSE scanning
     /\ autoCloseTimeout' =
          IF r.s.pc = "resolved" THEN scheduleAutoClose ELSE autoCloseTimeout

\* scanGroups() without a client and with no start-up running: it calls
\* initialize(), which starts a client (lines 359-362).
ScanCallInit(c, names) ==
  /\ sc[c].pc = "idle"
  /\ client = 0
  /\ ~isInitializing
  /\ InitStart(c)
  /\ sc' = [sc EXCEPT ![c] = [IdleCall EXCEPT !.pc = "awaitInit", !.names = names]]
  /\ UNCHANGED <<storeVars, previousMembers, scanning, scanProgressData, orphans, forwarded>>
  /\ UNCHANGED apiVars
  /\ UNCHANGED utilVars

\* scanGroups() with a client, or with a start-up running (initialize()
\* returns at once, lines 104-107): the check of lines 365-368.
ScanCallDirect(c, names) ==
  /\ sc[c].pc = "idle"
  /\ client # 0 \/ isInitializing
  /\ sc' = [sc EXCEPT ![c] = afterInitialize([IdleCall EXCEPT !.names = names], TRUE)]
  /\ UNCHANGED <<storeVars, sessionVars, previousMembers, scanning, scanProgressData,
                 orphans, forwarded>>
  /\ UNCHANGED apiVars
  /\ UNCHANGED utilVars

\* After the 5 s wait: the check of lines 375-378, then lines 381-409.
ScanWaitDone(c) ==
  /\ sc[c].pc = "wait5s"
  /\ IF client = 0 \/ client \notin pupPage
     THEN /\ sc' = [sc EXCEPT ![c].pc = "rejectedClient"]
          /\ UNCHANGED <<autoCloseTimeout, scanning, scanProgressData>>
     ELSE /\ autoCloseTimeout' = cancelAutoClose
          /\ scanning' = TRUE
          /\ scanProgressData' = [NoProgress EXCEPT !.total = Len(sc[c].names)]
          /\ sc' = [sc EXCEPT ![c].pc = "getChats"]
  /\ UNCHANGED <<client, live, pupPage, clientsCreated, qrCode, isAuthenticated, authError,
                 isInitializing, authTimeoutTimer, autoCloseEnabled, ini, initCalls, closing>>
  /\ UNCHANGED <<storeVars, previousMembers, orphans, forwarded>>
  /\ UNCHANGED apiVars
  /\ UNCHANGED utilVars

\* client.getChats() answers (lines 409-419).
GetChatsOk(c, allChats) ==
  /\ sc[c].pc = "getChats"
  /\ Advance(c, [sc[c] EXCEPT !.allGroups = groupsOf(allChats), !.k = 1], scanProgressData)
  /\ UNCHANGED <<client, live, pupPage, clientsCreated, qrCode, isAuthenticated, authError,
                 isInitializing, authTimeoutTimer, autoCloseEnabled, ini, initCalls, closing>>
  /\ UNCHANGED <<storeVars, previousMembers, orphans, forwarded>>
  /\ UNCHANGED apiVars
  /\ UNCHANGED utilVars

\* client.getChats() rejects (lines 531-539).
GetChatsFail(c) ==
  /\ sc[c].pc = "getChats"
  /\ sc' = [sc EXCEPT ![c].pc = "rejectedChats"]
  /\ scanning' = FALSE
  /\ autoCloseTimeout' = scheduleAutoClose
  /\ UNCHANGED <<client, live, pupPage, clientsCreated, qrCode, isAuthenticated, authError,
                 isInitializing, authTimeoutTimer, autoCloseEnabled, ini, initCalls, closing>>
  /\ UNCHANGED <<storeVars, previousMembers, scanProgressData, orphans, forwarded>>
  /\ UNCHANGED apiVars
  /\ UNCHANGED utilVars

\* The participants arrive: lines 443-469, up to the wait on saveGroupToStrapi.
FetchOk(c) ==
  /\ sc[c].pc = "fetch"
  /\ LET foundGroup == sc[c].allGroups[sc[c].found]
     IN /\ previousMembers' = [previousMembers EXCEPT ![foundGroup.name] = membersOf(foundGroup)]
        /\ forwarded' = forwarded \cup {foundGroup.name}
        /\ sc' = [sc EXCEPT ![c].pc = "forward", ![c].members = membersOf(foundGroup)]
  /\ UNCHANGED <<storeVars, sessionVars, scanning, scanProgressData, orphans>>
  /\ UNCHANGED apiVars
  /\ UNCHANGED utilVars

\* Reading the participants throws (lines 480-484), the item fails.
FetchFail(c) ==
  /\ sc[c].pc = "fetch"
  /\ Advance(c, itemFailed(sc[c]), progressFailed(scanProgressData, sc[c].names[sc[c].k]))
  /\ UNCHANGED <<client, live, pupPage, clientsCreated, qrCode, isAuthenticated, authError,
                 isInitializing, authTimeoutTimer, autoCloseEnabled, ini, initCalls, closing>>
  /\ UNCHANGED <<storeVars, previousMembers, orphans, forwarded>>
  /\ UNCHANGED apiVars
  /\ UNCHANGED utilVars

\* saveGroupToStrapi returns or throws (lines 469-479), the item succeeds.
ForwardDone(c) ==
  /\ sc[c].pc = "forward"
  /\ Advance(c, itemSucceeded(sc[c]), progressSucceeded(scanProgressData))
  /\ UNCHANGED <<client, live, pupPage, clientsCreated, qrCode, isAuthenticated, authError,
                 isInitializing, authTimeoutTimer, autoCloseEnabled, ini, initCalls, closing>>
  /\ UNCHANGED <<storeVars, previousMembers, orphans, forwarded>>
  /\ UNCHANGED apiVars
  /\ UNCHANGED utilVars

\* The timer of lines 425-428 fires after groupTimeout: resolve(null), the
\* item fails and the loop goes on; the executor stays pending.
ItemTimeout(c) ==
  /\ sc[c].pc \in {"fetch", "forward"}
  /\ sc[c].timer
  /\ Cardinality(orphans) < MaxOrphans
  /\ orphans' = orphans \cup {[stage |-> sc[c].pc, caller |-> c, k |-> sc[c].k,
                               group |-> sc[c].allGroups[sc[c].found]]}
  /\ Advance(c, itemFailed(sc[c]), progressFailed(scanProgressData, sc[c].names[sc[c].k]))
  /\ UNCHANGED <<client, live, pupPage, clientsCreated, qrCode, isAuthenticated, authError,
                 isInitializing, authTimeoutTimer, autoCloseEnabled, ini, initCalls, closing>>
  /\ UNCHANGED <<storeVars, previousMembers, forwarded>>
  /\ UNCHANGED apiVars
  /\ UNCHANGED utilVars

\* An executor whose item has timed out goes on (lines 443-479): its
\* resolve() is without effect.
OrphanFetchOk(o) ==
  /\ o \in orphans
  /\ o.stage = "fetch"
  /\ previousMembers' = [previousMembers EXCEPT ![o.group.name] = membersOf(o.group)]
  /\ forwarded' = forwarded \cup {o.group.name}
  /\ orphans' = (orphans \ {o}) \cup {[o EXCEPT !.stage = "forward"]}
  /\ UNCHANGED <<storeVars, sessionVars, scanning, scanProgressData, sc>>
  /\ UNCHANGED apiVars
  /\ UNCHANGED utilVars

OrphanFetchFail(o) ==
  /\ o \in orphans
  /\ o.stage = "fetch"
  /\ orphans' = orphans \ {o}
  /\ UNCHANGED <<storeVars, sessionVars, previousMembers, scanning, scanProgressData, sc,
                 forwarded>>
  /\ UNCHANGED apiVars
  /\ UNCHANGED utilVars

OrphanForwardDone(o) ==
  /\ o \in orphans
  /\ o.stage = "forward"
  /\ orphans' = orphans \ {o}
  /\ UNCHANGED <<storeVars, sessionVars, previousMembers, scanning, scanProgressData, sc,
                 forwarded>>
  /\ UNCHANGED apiVars
  /\ UNCHANGED utilVars

(***************************************************************************)
(* WhatsAppService: the service with LocalAuth.  ws holds its fields and   *)
(* the position of the one scanGroups() or initialize() call in progress.  *)
(***************************************************************************)
MaxWsClients == 2

IdleWs ==
  [client |-> 0, live |-> {}, clients |-> 0, qrCode |-> "null", isAuthenticated |-> FALSE,
   authError |-> "null", isInitializing |-> FALSE, autoCloseTimeout |-> "null",
   previousMembers |-> [g \in GroupNames |-> <<>>], closing |-> 0,
   pc |-> "idle", names |-> <<>>, k |-> 0, results |-> {}]

\* scheduleAutoClose (lines 272-286) and cancelAutoClose (lines 291-297).
wsScheduleAutoClose(w) ==
  IF autoCloseEnabled /\ w.client # 0 /\ w.isAuthenticated
  THEN [w EXCEPT !.autoCloseTimeout = "armed"]
  ELSE w
wsCancelAutoClose(w) == [w EXCEPT !.autoCloseTimeout = "null"]

\* initialize() up to await this.client.initialize() (lines 52-76).
wsStartClient(w) ==
  [w EXCEPT !.isInitializing = TRUE, !.clients = w.clients + 1,
            !.client = w.clients + 1, !.live = w.live \cup {w.clients + 1}]

\* The loop of scanGroups from target k on, up to its next await (lines
\* 163-176), and getGroupInfo from its entry (lines 92-103): a target whose
\* getGroupInfo throws is logged by the catch of line 167 and gets no entry.
RECURSIVE wsBeginItem(_, _)
RECURSIVE wsGetChats(_, _)
wsBeginItem(w, k) ==
  IF k > Len(w.names)
  THEN [wsScheduleAutoClose(w) EXCEPT !.pc = "resolved", !.k = k]
  ELSE IF w.client # 0 /\ w.isAuthenticated THEN wsGetChats(w, k)
  ELSE IF ~w.isInitializing THEN [wsStartClient(w) EXCEPT !.pc = "initItem", !.k = k]
  ELSE IF ~w.isAuthenticated THEN wsBeginItem(w, k + 1)
  ELSE wsGetChats(w, k)

\* getGroupInfo past its check: cancelAutoClose, then this.client!.getChats()
\* (lines 102-106), which throws inside the try when this.client is null.
wsGetChats(w, k) ==
  IF w.client = 0
  THEN wsBeginItem(wsScheduleAutoClose(wsCancelAutoClose(w)), k + 1)
  ELSE [wsCancelAutoClose(w) EXCEPT !.pc = "getChats", !.k = k]

\* Group(s) found by getGroupInfo: the same predicate as findGroup (lines 110-113).
wsMembersOf(group) ==
  [j \in 1..Len(group.participants) |->
     [phoneNumber |-> group.participants[j], isActive |-> TRUE, groupName |-> group.name]]

\* initialize() is called by a controller (lines 49-53).
WsInitialize ==
  /\ ws.pc = "idle"
  /\ ~ws.isInitializing
  /\ ~(ws.client # 0 /\ ws.isAuthenticated)
  /\ ws.clients < MaxWsClients
  /\ ws' = [wsStartClient(ws) EXCEPT !.pc = "initApi"]
  /\ UNCHANGED <<storeVars, sessionVars, scanVars, apiVars, rt, cs, wl>>

\* scanGroups(groupNames) is called (lines 150-161).
WsScanGroups(groupNames) ==
  /\ ws.pc = "idle"
  /\ LET w == [ws EXCEPT !.names = groupNames, !.results = {}]
     IN IF w.client # 0 /\ w.isAuthenticated
        THEN ws' = wsBeginItem(wsCancelAutoClose(w), 1)
        ELSE IF w.isInitializing
        THEN ws' = IF ~w.isAuthenticated THEN [w EXCEPT !.pc = "rejected"]
                   ELSE wsBeginItem(wsCancelAutoClose(w), 1)
        ELSE ws' = [wsStartClient(w) EXCEPT !.pc = "initScan"]
  /\ ws'.clients <= MaxWsClients
  /\ UNCHANGED <<storeVars, sessionVars, scanVars, apiVars, rt, cs, wl>>

\* this.client.initialize() settles (lines 76-86): a rejection is stored in
\* authError.  The caller then goes on: scanGroups and getGroupInfo throw when
\* the service is not authenticated (lines 96-98, 154-156).
WsClientInitDone(ok) ==
  /\ ws.pc \in {"initApi", "initScan", "initItem"}
  /\ LET w == [ws EXCEPT !.isInitializing = FALSE,
                         !.authError = IF ok THEN @ ELSE "error"]
     IN ws' = IF ws.pc = "initApi" THEN [w EXCEPT !.pc = "idle"]
              ELSE IF ws.pc = "initScan"
              THEN IF ~w.isAuthenticated THEN [w EXCEPT !.pc = "rejected"]
                   ELSE wsBeginItem(wsCancelAutoClose(w), 1)
              ELSE IF ~w.isAuthenticated THEN wsBeginItem(w, w.k + 1)
                   ELSE wsGetChats(w, w.k)
  /\ ws'.clients <= MaxWsClients
  /\ UNCHANGED <<storeVars, sessionVars, scanVars, apiVars, rt, cs, wl>>

\* getChats() resolves (lines 106-139): the group is looked up; when there is
\* none getGroupInfo throws, otherwise the members are stored and returned and
\* scanGroups enters them under the target name.
WsGetChatsOk(chats) ==
  /\ ws.pc = "getChats"
  /\ LET groups == groupsOf(chats)
         groupName == ws.names[ws.k]
         g == findGroup(groups, groupName)
     IN IF g = 0
        THEN ws' = wsBeginItem(wsScheduleAutoClose(ws), ws.k + 1)
        ELSE LET group == groups[g]
                 w == [ws EXCEPT !.previousMembers[group.name] = wsMembersOf(group)]
                 done == [wsScheduleAutoClose(w) EXCEPT
                            !.results = @ \cup {[key |-> groupName, name |-> group.name,
                                                 members |-> wsMembersOf(group)]}]
             IN ws' = wsBeginItem(done, ws.k + 1)
  /\ ws'.clients <= MaxWsClients
  /\ UNCHANGED <<storeVars, sessionVars, scanVars, apiVars, rt, cs, wl>>

\* getChats() rejects: getGroupInfo rethrows (lines 135-137).
WsGetChatsFail ==
  /\ ws.pc = "getChats"
  /\ ws' = wsBeginItem(wsScheduleAutoClose(ws), ws.k + 1)
  /\ ws'.clients <= MaxWsClients
  /\ UNCHANGED <<storeVars, sessionVars, scanVars, apiVars, rt, cs, wl>>

\* The events of setupEvents (lines 302-360).
WsOnQr(cl) ==
  /\ cl \in ws.live
  /\ ws' = [ws EXCEPT !.qrCode = "qr", !.isAuthenticated = FALSE]
  /\ UNCHANGED <<storeVars, sessionVars, scanVars, apiVars, rt, cs, wl>>

WsOnAuthenticated(cl) ==
  /\ cl \in ws.live
  /\ ws' = [ws EXCEPT !.isAuthenticated = TRUE, !.qrCode = "null", !.authError = "null"]
  /\ UNCHANGED <<storeVars, sessionVars, scanVars, apiVars, rt, cs, wl>>

WsOnReady(cl) ==
  /\ cl \in ws.live
  /\ ws' = [ws EXCEPT !.isAuthenticated = TRUE]
  /\ UNCHANGED <<storeVars, sessionVars, scanVars, apiVars, rt, cs, wl>>

WsOnDisconnected(cl) ==
  /\ cl \in ws.live
  /\ ws' = [ws EXCEPT !.isAuthenticated = FALSE, !.qrCode = "null", !.client = 0]
  /\ UNCHANGED <<storeVars, sessionVars, scanVars, apiVars, rt, cs, wl>>

WsOnAuthFailure(cl) ==
  /\ cl \in ws.live
  /\ ws' = [ws EXCEPT !.authError = "error", !.isAuthenticated = FALSE]
  /\ UNCHANGED <<storeVars, sessionVars, scanVars, apiVars, rt, cs, wl>>

\* The auto-close timer fires: close() up to await this.client.destroy()
\* (lines 232-241).
WsAutoCloseFires ==
  /\ ws.autoCloseTimeout = "armed"
  /\ ws.closing = 0
  /\ ws' = [wsCancelAutoClose(ws) EXCEPT !.closing = ws.client]
  /\ UNCHANGED <<storeVars, sessionVars, scanVars, apiVars, rt, cs, wl>>

\* destroy() settles: the finally of lines 246-250.
WsCloseDone ==
  /\ ws.closing # 0
  /\ ws' = [ws EXCEPT !.live = @ \ {ws.closing}, !.closing = 0, !.client = 0,
                      !.isAuthenticated = FALSE, !.qrCode = "null", !.authError = "null"]
  /\ UNCHANGED <<storeVars, sessionVars, scanVars, apiVars, rt, cs, wl>>

(***************************************************************************)
(* The membership fetch with retries: retry() of utils/RetryHelper, which  *)
(* GroupScanner.scanSingleGroup calls, and the participants loop of        *)
(* scanGroups.  rt.calls counts the calls of the fetch, rt.delays lists    *)
(* the delays waited between them.                                         *)
(***************************************************************************)
MaxRetriesArg == 3
DelayArgs == {500, 1000, 5000}
strapiRetryDelayMs == 1000

IdleRt ==
  [pc |-> "idle", code |-> "none", maxRetries |-> 0, delayMs |-> 0,
   useExponentialBackoff |-> FALSE, attempt |-> 0, calls |-> 0, delays |-> <<>>,
   result |-> "none"]

RECURSIVE pow2(_)
pow2(n) == IF n = 0 THEN 1 ELSE 2 * pow2(n - 1)

\* A delay that does not grow with the attempts.
currentDelayFixed(delayMs, attempt, useExponentialBackoff) == delayMs

\* retry(): the delay before attempt 1, 2, .. (lines 29-31).
currentDelay(delayMs, attempt, useExponentialBackoff) ==
  IF useExponentialBackoff THEN delayMs * pow2(attempt - 1) ELSE delayMs * attempt

\* retry(fn, maxRetries, delayMs, ctx, useExponentialBackoff): attempt 0 calls
\* fn at once (lines 21-26).
RetryCall(maxR, delayMs, useExponentialBackoff) ==
  /\ rt = IdleRt
  /\ rt' = [IdleRt EXCEPT !.pc = "fn", !.code = "retry", !.maxRetries = maxR,
                          !.delayMs = delayMs,
                          !.useExponentialBackoff = useExponentialBackoff,
                          !.attempt = 0, !.calls = 1]
  /\ UNCHANGED <<storeVars, sessionVars, scanVars, apiVars, ws, cs, wl>>

\* fn() resolves: retry() returns its value.
RetryFnOk ==
  /\ rt.code = "retry" /\ rt.pc = "fn"
  /\ rt' = [rt EXCEPT !.pc = "done", !.result = "value"]
  /\ UNCHANGED <<storeVars, sessionVars, scanVars, apiVars, ws, cs, wl>>

\* fn() rejects: the catch of lines 47-65 returns null after the last attempt;
\* otherwise the next iteration computes its delay and waits.
RetryFnFail ==
  /\ rt.code = "retry" /\ rt.pc = "fn"
  /\ IF rt.attempt = rt.maxRetries
     THEN rt' = [rt EXCEPT !.pc = "done", !.result = "null"]
     ELSE rt' = [rt EXCEPT !.pc = "delay", !.attempt = rt.attempt + 1,
                           !.delays = Append(@, currentDelay(rt.delayMs, rt.attempt + 1,
                                                              rt.useExponentialBackoff))]
  /\ UNCHANGED <<storeVars, sessionVars, scanVars, apiVars, ws, cs, wl>>

\* The delay is over: fn is called again (lines 41-44).
RetryDelayDone ==
  /\ rt.code = "retry" /\ rt.pc = "delay"
  /\ rt' = [rt EXCEPT !.pc = "fn", !.calls = rt.calls + 1]
  /\ UNCHANGED <<storeVars, sessionVars, scanVars, apiVars, ws, cs, wl>>

\* scanGroups: the participants loop with SimpleWhatsAppService.maxRetries = maxR
\* (lines 679-684); with maxR = 0 the loop is not entered and line 698 throws.
LoopCall(maxR) ==
  /\ rt = IdleRt
  /\ IF 0 < maxR
     THEN rt' = [IdleRt EXCEPT !.pc = "fn", !.code = "loop", !.maxRetries = maxR,
                              !.delayMs = strapiRetryDelayMs, !.calls = 1]
     ELSE rt' = [IdleRt EXCEPT !.pc = "done", !.code = "loop", !.maxRetries = maxR,
                              !.delayMs = strapiRetryDelayMs, !.result = "threw"]
  /\ UNCHANGED <<storeVars, sessionVars, scanVars, apiVars, ws, cs, wl>>

\* await foundGroup.participants resolves (line 686).
LoopFnOk ==
  /\ rt.code = "loop" /\ rt.pc = "fn"
  /\ rt' = [rt EXCEPT !.pc = "done", !.result = "value"]
  /\ UNCHANGED <<storeVars, sessionVars, scanVars, apiVars, ws, cs, wl>>

\* It rejects (lines 687-695): retryCount++, then a delay of
\* strapiRetryDelayMs * retryCount, or the error is rethrown.
LoopFnFail ==
  /\ rt.code = "loop" /\ rt.pc = "fn"
  /\ IF rt.attempt + 1 < rt.maxRetries
     THEN rt' = [rt EXCEPT !.pc = "delay", !.attempt = rt.attempt + 1,
                           !.delays = Append(@, strapiRetryDelayMs * (rt.attempt + 1))]
     ELSE rt' = [rt EXCEPT !.pc = "done", !.attempt = rt.attempt + 1, !.result = "threw"]
  /\ UNCHANGED <<storeVars, sessionVars, scanVars, apiVars, ws, cs, wl>>

\* The delay is over: the loop condition holds and the fetch is made again.
LoopDelayDone ==
  /\ rt.code = "loop" /\ rt.pc = "delay"
  /\ rt' = [rt EXCEPT !.pc = "fn", !.calls = rt.calls + 1]
  /\ UNCHANGED <<storeVars, sessionVars, scanVars, apiVars, ws, cs, wl>>

(***************************************************************************)
(* The specification of the store.                                         *)
(***************************************************************************)

\* No fragment stored, no call made.
InitBlobs ==
  /\ records = <<>>
  /\ nextId = 1
  /\ sv = IdleSv
  /\ hist = [id \in SessionIds |-> <<>>]
  /\ opCount = 0
  /\ outFile = NoFile
  /\ ex = NoExtract
  /\ exCount = 0

\* The service as constructed (lines 27-50, 52-93): no client, nothing
\* scanned.
InitService ==
  /\ client = 0
  /\ live = {}
  /\ pupPage = {}
  /\ clientsCreated = 0
  /\ qrCode = "null"
  /\ isAuthenticated = FALSE
  /\ authError = "null"
  /\ isInitializing = FALSE
  /\ autoCloseTimeout = "null"
  /\ authTimeoutTimer = "null"
  /\ autoCloseEnabled \in BOOLEAN
  /\ ini = IdleIni
  /\ initCalls = 0
  /\ closing = [cl \in Clients |-> 0]
  /\ previousMembers = [g \in GroupNames |-> <<>>]
  /\ scanning = FALSE
  /\ scanProgressData = NoProgress
  /\ sc = [c \in Callers |-> IdleCall]
  /\ orphans = {}
  /\ forwarded = {}
  /\ sessionDir \in BOOLEAN
  /\ lo = IdleLo
  /\ closeCalls = 0
  /\ ret = NoReturn
  /\ ws = IdleWs
  /\ rt = IdleRt
  /\ cs = [i \in Savers |-> IdleSv]
  /\ wl = IdleWl

\* The store with the service at rest, in its default configuration.
InitStore == InitBlobs /\ InitService /\ autoCloseEnabled /\ sessionDir

NextStore ==
  \/ \E id \in SessionIds : SaveNoZip(id)
  \/ \E id \in SessionIds, b \in Blobs : SaveBegin(id, b)
  \/ \E id \in SessionIds : DeleteBegin(id)
  \/ ListPageOk
  \/ ListPageFail
  \/ \E rid \in sv.pending : DeleteFragmentOk(rid)
  \/ \E rid \in sv.pending : DeleteFragmentFail(rid)
  \/ WriteFragmentOk
  \/ WriteFragmentFail
  \/ \E id \in SessionIds : ExtractNoPath(id)
  \/ \E id \in SessionIds : ExtractFail(id)
  \/ \E id \in SessionIds : ExtractOk(id)

SpecStore == InitStore /\ [][NextStore]_vars

\* Two save() calls that overlap, each answered request by request.
pendingDeletes == UNION {cs[i].pending : i \in Savers}

NextStoreOverlap ==
  \/ \E i \in Savers, id \in SessionIds, b \in OverlapBlobs : OverlapSaveBegin(i, id, b)
  \/ \E i \in Savers : OverlapListPageOk(i)
  \/ \E i \in Savers : OverlapListPageFail(i)
  \/ \E i \in Savers, rid \in pendingDeletes : OverlapDeleteOk(i, rid)
  \/ \E i \in Savers, rid \in pendingDeletes : OverlapDeleteFail(i, rid)
  \/ \E i \in Savers : OverlapWriteOk(i)
  \/ \E i \in Savers : OverlapWriteFail(i)

SpecStoreOverlap == InitStore /\ [][NextStoreOverlap]_vars

\* One withConcurrencyLimit() call over up to MaxItems items.
NextLimit ==
  \/ \E n \in 0..MaxItems, maxConcurrent \in ConcurrencyArgs :
       WithConcurrencyLimit(n, maxConcurrent)
  \/ \E k \in ItemIndexes : WlFnOk(k)
  \/ \E k \in ItemIndexes : WlFnFail(k)

SpecLimit == InitStore /\ [][NextLimit]_vars

\* An artifact whose encoded text splits into more fragments than one page of
\* the GET of extract() holds.
LongBlob == [k \in 1..(MAX_CHUNK_SIZE * ExtractPageSize) |-> 255]

\* The store with sessions of more fragments than one extract page.
NextStoreLong ==
  \/ \E id \in SessionIds : SaveNoZip(id)
  \/ \E id \in SessionIds : SaveBegin(id, LongBlob)
  \/ \E id \in SessionIds : DeleteBegin(id)
  \/ ListPageOk
  \/ ListPageFail
  \/ \E rid \in sv.pending : DeleteFragmentOk(rid)
  \/ \E rid \in sv.pending : DeleteFragmentFail(rid)
  \/ WriteFragmentOk
  \/ WriteFragmentFail
  \/ \E id \in SessionIds : ExtractNoPath(id)
  \/ \E id \in SessionIds : ExtractFail(id)
  \/ \E id \in SessionIds : ExtractOk(id)

SpecStoreLong == InitStore /\ [][NextStoreLong]_vars

\* A store that already holds the fragments of a session, one of them no longer
\* active: the records of the session id "s1" as a save() of a one-byte
\* artifact wrote them, the first one deactivated since.
SeededRecords ==
  LET base64Data == encodeBlob(<<255>>)
      n == totalChunksOf(base64Data)
  IN [k \in 1..n |->
        [id |-> k, session_id |-> "s1", active |-> (k # 1), is_compressed |-> TRUE,
         chunk_index |-> k - 1, total_chunks |-> n,
         session_data |-> chunkOf(base64Data, k - 1), gen |-> 0]]

InitStoreSeeded ==
  /\ records = SeededRecords
  /\ nextId = Len(SeededRecords) + 1
  /\ sv = IdleSv
  /\ hist = [id \in SessionIds |-> <<>>]
  /\ opCount = 0
  /\ outFile = NoFile
  /\ ex = NoExtract
  /\ exCount = 0
  /\ InitService /\ autoCloseEnabled /\ sessionDir

\* The calls on the seeded store: save() writes one artifact.
NextStoreSeeded ==
  \/ \E id \in SessionIds : SaveNoZip(id)
  \/ \E id \in SessionIds : SaveBegin(id, <<0>>)
  \/ \E id \in SessionIds : DeleteBegin(id)
  \/ ListPageOk
  \/ ListPageFail
  \/ \E rid \in sv.pending : DeleteFragmentOk(rid)
  \/ \E rid \in sv.pending : DeleteFragmentFail(rid)
  \/ WriteFragmentOk
  \/ WriteFragmentFail
  \/ \E id \in SessionIds : ExtractNoPath(id)
  \/ \E id \in SessionIds : ExtractFail(id)
  \/ \E id \in SessionIds : ExtractOk(id)

SpecStoreSeeded == InitStoreSeeded /\ [][NextStoreSeeded]_vars

(***************************************************************************)
(* The specification of the session and the scans.                         *)
(***************************************************************************)
\* The scans start from a service that has a stored session: no QR code is
\* scanned in these behaviours.
InitScan == InitBlobs /\ InitService /\ sessionDir

NextScan ==
  \/ clientsCreated < MaxScanClients /\ CreateClient
  \/ StartOk
  \/ StartFail
  \/ SettleDone(sessionDir)
  \/ PollDone
  \/ DestroyFailedDone
  \/ \E cl \in Clients : OnAuthenticated(cl)
  \/ \E cl \in Clients : OnReady(cl)
  \/ \E cl \in Clients : OnDisconnected(cl)
  \/ AuthTimeoutFires
  \/ AutoCloseFires
  \/ \E cl \in Clients : SoftCloseDone(cl)
  \/ \E c \in Callers, names \in TargetLists :
       (client = 0 => clientsCreated < MaxScanClients) /\ ScanCallInit(c, names)
  \/ \E c \in Callers, names \in TargetLists : ScanCallDirect(c, names)
  \/ \E c \in Callers : ScanWaitDone(c)
  \/ \E c \in Callers, allChats \in ChatLists : GetChatsOk(c, allChats)
  \/ \E c \in Callers : GetChatsFail(c)
  \/ \E c \in Callers : FetchOk(c)
  \/ \E c \in Callers : FetchFail(c)
  \/ \E c \in Callers : ForwardDone(c)
  \/ \E c \in Callers : ItemTimeout(c)
  \/ \E o \in orphans : OrphanFetchOk(o)
  \/ \E o \in orphans : OrphanFetchFail(o)
  \/ \E o \in orphans : OrphanForwardDone(o)

SpecScan == InitScan /\ [][NextScan]_vars

(***************************************************************************)
(* The specification of the session: initialize() called by the            *)
(* controllers and by scanGroups(), close() called by the controllers, the *)
(* client's events and the auth-timeout timer.  The scans themselves are   *)
(* left out: a scanGroups() call stays where initialize() leaves it.       *)
(***************************************************************************)
\* The service starts in its default configuration with no stored session.
InitSession == InitBlobs /\ InitService /\ autoCloseEnabled /\ ~sessionDir

NextSession ==
  \/ ApiInitialize
  \/ ApiInitializeNoop
  \/ \E c \in Callers : ScanCallInit(c, <<>>)
  \/ DestroyOldDone
  \/ CreateClient
  \/ StartOk
  \/ StartFail
  \/ SettleDone(sessionDir)
  \/ PollDone
  \/ DestroyFailedDone
  \/ \E cl \in Clients : OnQr(cl)
  \/ \E cl \in Clients : OnAuthenticated(cl)
  \/ \E cl \in Clients : OnAuthFailure(cl)
  \/ \E cl \in Clients : OnReady(cl)
  \/ \E cl \in Clients : OnDisconnected(cl)
  \/ AuthTimeoutFires
  \/ \E cl \in Clients : SoftCloseDone(cl)
  \/ ApiClose
  \/ \E removed \in BOOLEAN : LogoutDone(removed)
  \/ LogoutDestroyDone
  \/ \E deleted \in BOOLEAN : CleanDone(deleted)
  \/ \E cl \in Clients : SessionSaved(cl)

SpecSession == InitSession /\ [][NextSession]_vars

(***************************************************************************)
(* The specification of close(): a session started by scanGroups([]) from  *)
(* a stored session, the two timers, and close() called by the             *)
(* controllers.                                                            *)
(***************************************************************************)
NextClose ==
  \/ \E c \in Callers :
       (client = 0 => clientsCreated < MaxScanClients) /\ ScanCallInit(c, <<>>)
  \/ \E c \in Callers : ScanCallDirect(c, <<>>)
  \/ clientsCreated < MaxScanClients /\ CreateClient
  \/ StartOk
  \/ StartFail
  \/ SettleDone(sessionDir)
  \/ PollDone
  \/ DestroyFailedDone
  \/ \E cl \in Clients : OnAuthenticated(cl)
  \/ \E cl \in Clients : OnReady(cl)
  \/ \E c \in Callers : ScanWaitDone(c)
  \/ \E c \in Callers, allChats \in ChatLists : GetChatsOk(c, allChats)
  \/ \E c \in Callers : GetChatsFail(c)
  \/ AuthTimeoutFires
  \/ AutoCloseFires
  \/ \E cl \in Clients : SoftCloseDone(cl)
  \/ ApiClose
  \/ \E removed \in BOOLEAN : LogoutDone(removed)
  \/ LogoutDestroyDone
  \/ \E deleted \in BOOLEAN : CleanDone(deleted)
  \/ \E cl \in Clients : SessionSaved(cl)

SpecClose == InitScan /\ [][NextClose]_vars

(***************************************************************************)
(* The specification of getScanProgress(): the progress of a batch of up   *)
(* to MaxTotal targets, asked for at any point of the batch.               *)
(***************************************************************************)
ProgressAt(total, completed) ==
  [total |-> total, completed |-> completed, successful |-> completed, failed |-> 0,
   failedGroups |-> <<>>]

InitProgress ==
  /\ InitBlobs
  /\ client = 0
  /\ live = {}
  /\ pupPage = {}
  /\ clientsCreated = 0
  /\ qrCode = "null"
  /\ isAuthenticated = FALSE
  /\ authError = "null"
  /\ isInitializing = FALSE
  /\ autoCloseTimeout = "null"
  /\ authTimeoutTimer = "null"
  /\ autoCloseEnabled = TRUE
  /\ ini = IdleIni
  /\ initCalls = 0
  /\ closing = [cl \in Clients |-> 0]
  /\ previousMembers = [g \in GroupNames |-> <<>>]
  /\ scanning = FALSE
  /\ \E total \in 0..MaxTotal : \E completed \in 0..total :
       scanProgressData = ProgressAt(total, completed)
  /\ sc = [c \in Callers |-> IdleCall]
  /\ orphans = {}
  /\ forwarded = {}
  /\ sessionDir = TRUE
  /\ lo = IdleLo
  /\ closeCalls = 0
  /\ ret = NoReturn
  /\ ws = IdleWs
  /\ rt = IdleRt
  /\ cs = [i \in Savers |-> IdleSv]
  /\ wl = IdleWl

\* WhatsAppService: a controller initializes the service and scans.
NextLegacy ==
  \/ WsInitialize
  \/ \E names \in TargetLists : WsScanGroups(names)
  \/ \E ok \in BOOLEAN : WsClientInitDone(ok)
  \/ \E chats \in ChatLists : WsGetChatsOk(chats)
  \/ WsGetChatsFail
  \/ \E cl \in 1..MaxWsClients : WsOnQr(cl)
  \/ \E cl \in 1..MaxWsClients : WsOnAuthenticated(cl)
  \/ \E cl \in 1..MaxWsClients : WsOnReady(cl)
  \/ \E cl \in 1..MaxWsClients : WsOnDisconnected(cl)
  \/ \E cl \in 1..MaxWsClients : WsOnAuthFailure(cl)
  \/ WsAutoCloseFires
  \/ WsCloseDone

SpecLegacy == InitScan /\ [][NextLegacy]_vars

\* The membership fetches with retries; GroupScanner.scanSingleGroup calls
\* retry(fn, 3, 1000, ctx), with the exponential backoff of the default.
NextRetry ==
  \/ \E maxR \in 1..MaxRetriesArg, delayMs \in DelayArgs, exp \in BOOLEAN :
        RetryCall(maxR, delayMs, exp)
  \/ RetryFnOk
  \/ RetryFnFail
  \/ RetryDelayDone
  \/ \E maxR \in 0..MaxRetriesArg : LoopCall(maxR)
  \/ LoopFnOk
  \/ LoopFnFail
  \/ LoopDelayDone

SpecRetry == InitScan /\ [][NextRetry]_vars

NextProgress == GetScanProgress

SpecProgress == InitProgress /\ [][NextProgress]_vars

(***************************************************************************)
(* Properties of the store.                                                *)
(***************************************************************************)
\* An extract() whose GET was answered, made while no save()/delete() of the
\* id was running and after a save() of the id all of whose requests succeeded.
ExtractAfterCleanSave ==
  /\ ex.result \in {"none", "wrote"}
  /\ ~ex.busy
  /\ ex.last.op = "save"
  /\ ex.last.ok

HoldsExactly(id, b, gen) ==
  LET frs == activeBySession(id)
      base64Data == encodeBlob(b)
      n == totalChunksOf(base64Data)
  IN /\ Len(frs) = n
     /\ Len(bySession(id)) = n
     /\ \A k \in 1..n :
          /\ frs[k].chunk_index = k - 1
          /\ frs[k].total_chunks = n
          /\ frs[k].session_data = chunkOf(base64Data, k - 1)
          /\ frs[k].gen = gen

\* save(id, b1) has returned and then save(id, b2) has returned with every
\* request answered, and no other call on id is running.
TwoSavesDone(id) ==
  /\ ~(sv.pc # "idle" /\ sv.id = id)
  /\ Len(hist[id]) >= 2
  /\ hist[id][Len(hist[id]) - 1].op = "save"
  /\ lastOp(id).op = "save"
  /\ lastOp(id).ok

\* C2: after save(id, b1) and then save(id, b2) have completed, the store holds
\* for id exactly the fragments of b2, none of b1, and extract(id) returns b2.
C2_ReplaceSemantics ==
  \A id \in SessionIds :
    TwoSavesDone(id) =>
      /\ HoldsExactly(id, lastOp(id).blob, lastOp(id).gen)
      /\ (ex.id = id /\ ex.result \in {"none", "wrote"} /\ ex.last = lastOp(id))
            => (ex.result = "wrote" /\ outFile = FileOf(lastOp(id).blob))

\* C2 witness: two saves of different blobs to one id, then an extract of it.
C2_Witness ==
  \E id \in SessionIds :
    /\ TwoSavesDone(id)
    /\ hist[id][Len(hist[id]) - 1].ok
    /\ hist[id][Len(hist[id]) - 1].blob # lastOp(id).blob
    /\ ex.id = id /\ ex.result = "wrote" /\ ex.last = lastOp(id)

\* The step is an extract() whose GET was answered, made while no call on the
\* id was running and after a delete() of the id all of whose requests succeeded.
ExtractsAfterCleanDelete ==
  /\ exCount' # exCount
  /\ ex'.result \in {"none", "wrote"}
  /\ ~ex'.busy
  /\ ex'.last.op = "delete"
  /\ ex'.last.ok

\* C3: after delete(id) has completed, whatever saves of id came before,
\* extract(id) finds no fragment, returns normally and writes no artifact.
C3_DeleteThenExtract ==
  [][ExtractsAfterCleanDelete =>
        (ex'.result = "none" /\ ex'.gens = {} /\ outFile' = outFile)]_vars

\* C3 witness: a save of id, then a delete of id, then an extract that found nothing.
C3_Witness ==
  /\ ex.result = "none"
  /\ ~ex.busy
  /\ ex.last.op = "delete" /\ ex.last.ok
  /\ Len(hist[ex.id]) >= 2
  /\ hist[ex.id][1].op = "save" /\ hist[ex.id][1].ok

\* C4: in every reachable state the active fragments of a session id have
\* chunk indices that are exactly the contiguous range [0, totalChunks).
C4_ContiguousRange ==
  \A id \in SessionIds :
    LET frs == activeBySession(id)
    IN Len(frs) > 0 =>
         /\ \A k \in 1..Len(frs) : frs[k].total_chunks = Len(frs)
         /\ {frs[k].chunk_index : k \in 1..Len(frs)} = 0..(Len(frs) - 1)

\* C5: a save never leaves, and an extract never observes, active fragments of
\* one session id that come from two save generations.
C5_NoTornMix ==
  /\ sv.pc = "idle" =>
       \A id \in SessionIds :
         Cardinality({activeBySession(id)[k].gen : k \in 1..Len(activeBySession(id))}) <= 1
  /\ Cardinality(ex.gens) <= 1

(***************************************************************************)
(* Properties of the scans.                                                *)
(***************************************************************************)
\* C6: scanGroups called while the session is not authenticated rejects with
\* the authentication-required error at once, having started no client and
\* changed no field of the service and no progress.
C6_UnauthenticatedRejection ==
  [][\A c \in Callers :
       (sc[c].pc = "idle" /\ sc'[c].pc # "idle" /\ ~isAuthenticated) =>
          /\ sc'[c].pc = "rejectedAuth"
          /\ UNCHANGED <<sessionVars, previousMembers, scanning, scanProgressData>>]_vars

\* The call of caller c is between its getChats() and its return.
InBatch(c) == sc[c].pc \in {"getChats", "fetch", "forward"}

\* C7: at most one scan batch is in flight at any time.
C7_SingleFlight ==
  \A c1, c2 \in Callers : (InBatch(c1) /\ InBatch(c2)) => c1 = c2

\* C8: scanGroups([]) never calls getChats, and resolves to an empty map.
C8_EmptyBatch ==
  \A c \in Callers :
    sc[c].names = <<>> =>
      /\ sc[c].pc # "getChats"
      /\ sc[c].pc = "resolved" => sc[c].results = {}

\* Target j of the call of caller c has been processed and matches no group of
\* the fetched list, neither exactly nor by substring.
UnmatchedDone(c, j) ==
  /\ j < sc[c].k
  /\ \A g \in 1..Len(sc[c].allGroups) : ~matchesTarget(sc[c].allGroups[g], sc[c].names[j])

\* C9: a target that matches no group of the fetched list is recorded as
\* failed with empty members, its participants are never asked for, the call
\* never waits on it, and a batch of such targets resolves with getChats().
C9_UnmatchedFails ==
  \A c \in Callers :
    /\ \A j \in 1..Len(sc[c].names) :
         UnmatchedDone(c, j) =>
           /\ [key |-> sc[c].names[j], name |-> sc[c].names[j], members |-> <<>>]
                 \in sc[c].results
           /\ \E f \in 1..Len(sc[c].failedGroups) : sc[c].failedGroups[f] = sc[c].names[j]
           /\ sc[c].names[j] \notin sc[c].fetched
    /\ sc[c].pc \in {"fetch", "forward"} =>
         \E g \in 1..Len(sc[c].allGroups) :
            matchesTarget(sc[c].allGroups[g], sc[c].names[sc[c].k])

\* C9 witness: a batch with an unmatched target between two matched ones has
\* resolved against a non-empty list of groups.
C9_Witness ==
  \E c \in Callers :
    /\ sc[c].pc = "resolved"
    /\ Len(sc[c].allGroups) > 0
    /\ \E j \in 1..Len(sc[c].names) : UnmatchedDone(c, j)
    /\ \E r \in sc[c].results : r.members # <<>>

\* The step is the firing of the item timer of caller c.
TimerFired(c) ==
  /\ sc[c].pc \in {"fetch", "forward"}
  /\ sc'[c].k = sc[c].k + 1
  /\ Cardinality(orphans') > Cardinality(orphans)

Running(c) == sc[c].pc \in {"awaitInit", "wait5s", "getChats", "fetch", "forward"}

\* C11: isScanning() is true at every instant between a call of scanGroups and
\* the settlement of its promise, and false at every other instant.
C11_ScanningFlag == scanning <=> (\E c \in Callers : Running(c))

\* C14: the idle auto-close timer never fires, and closes the client, while a
\* scanGroups call has begun and has not settled.
C14_NoAutoCloseDuringScan ==
  [][AutoCloseFires => (\A c \in Callers : ~Running(c))]_vars

\* C12: the percent answered by getScanProgress() is 100 if and only if
\* completed equals total, for every total >= 0 and 0 <= completed <= total.
C12_PercentHundred ==
  ret.op = "getScanProgress" =>
    (ret.percent = 100 <=> ret.value.completed = ret.value.total)

(***************************************************************************)
(* Properties of the session.                                              *)
(***************************************************************************)
\* The close(true) forced by the auth-timeout timer completes in this step:
\* at once when there is no client, else when its destroy() settles.
TimeoutCloseCompletes ==
  \/ AuthTimeoutFires /\ ~isAuthenticated /\ client = 0
  \/ authTimeoutTimer = "fired" /\ \E cl \in Clients : SoftCloseDone(cl)

\* C13: once the auth-timeout timer has fired without authentication and has
\* forced close(true), isClientAuthenticated() is false and getAuthError() is
\* non-null.
C13_AuthTimeoutSurfaces ==
  [][TimeoutCloseCompletes => (~isAuthenticated' /\ authError' # "null")]_vars

\* C15: initialize() called while an initialization is in progress, or while a
\* client exists and is authenticated, starts no client, arms or clears no
\* timer, and leaves the client handle, the QR payload and the auth error
\* unchanged.
C15_InitializeNoop ==
  [][((isInitializing \/ (client # 0 /\ isAuthenticated))
        /\ (ApiInitialize \/ ApiInitializeNoop))
       => UNCHANGED <<client, live, clientsCreated, authTimeoutTimer, autoCloseTimeout,
                      qrCode, authError, isInitializing, ini, initCalls>>]_vars

\* C15 witness: initialize() has returned at once while an initialization was
\* in progress with its auth-timeout timer armed.
C15_Witness ==
  /\ ret = answered("initialize: at once")
  /\ isInitializing
  /\ authTimeoutTimer = "armed"
  /\ ini.pc = "starting"

\* The last attempt of the running initialize() fails in this step.
LastAttemptFails ==
  /\ ini.retryCount + 1 >= maxRetries
  /\ ini'.pc = "idle"
  /\ \/ StartFail
     \/ DestroyFailedDone
     \/ SettleDone(sessionDir) /\ (client = 0 \/ client \notin pupPage)

\* C16: initialize() makes at most maxRetries attempts, waits longer before
\* each retry than before the one preceding it, and when the last attempt
\* fails it records a non-null auth error, holds no client handle, clears the
\* in-progress flag and rejects.
C16_RetryThenReject ==
  /\ [](ini.retryCount < maxRetries)
  /\ [][/\ ini'.retryCount > ini.retryCount => ini'.delay > ini.delay
        /\ LastAttemptFails =>
             /\ authError' # "null"
             /\ client' = 0
             /\ ~isInitializing'
             /\ ini.caller # 0 => sc'[ini.caller].pc = "rejectedInit"]_vars

\* C16 witness: a scanGroups() call was rejected by its initialize() after
\* maxRetries clients were created and failed, the last wait being the longest.
C16_Witness ==
  /\ \E c \in Callers : sc[c].pc = "rejectedInit"
  /\ clientsCreated >= maxRetries
  /\ authError = "init"
  /\ client = 0
  /\ ~isInitializing

\* The IDLE configuration: no client handle, not authenticated, no QR payload,
\* no timer armed.
IdleConfiguration ==
  /\ client = 0
  /\ ~isAuthenticated
  /\ qrCode = "null"
  /\ authTimeoutTimer # "armed"
  /\ autoCloseTimeout # "armed"

\* A close() returns in this step: close(false) after cleaning the local
\* session, close(true) after its destroy(), or at once with no client.
CloseReturns ==
  \/ \E deleted \in BOOLEAN : CleanDone(deleted)
  \/ \E cl \in Clients : SoftCloseDone(cl)
  \/ AuthTimeoutFires /\ ~isAuthenticated /\ client = 0

\* C17: when close(preserveSession) returns, for either value of
\* preserveSession, the session is in the IDLE configuration.
C17_CloseLeavesIdle == [][CloseReturns => IdleConfiguration']_vars

\* A close(true) acts in this step: a timer fires and runs it up to its
\* destroy(), or its destroy() settles and it completes.
SoftCloseStep ==
  \/ AuthTimeoutFires
  \/ AutoCloseFires
  \/ \E cl \in Clients : SoftCloseDone(cl)

AttemptExits ==
  \/ DestroyFailedDone
  \/ StartFail /\ client = 0
  \/ SettleDone(sessionDir) /\ client = 0

\* C19: when a failed attempt of initialize() is left, the client created by
\* the attempt has been destroyed and the handle is null.
C19_FailedAttemptReleases ==
  [][AttemptExits => (client' = 0 /\ ini.target \notin live')]_vars

\* C20: at any time at most one client is live, and a live client is the one
\* the handle refers to.
C20_SingleLiveClient == Cardinality(live) <= 1 /\ live \subseteq {client}

(***************************************************************************)
(* Properties of the batch: rejection, name resolution, progress and       *)
(* outstanding fetches.                                                    *)
(***************************************************************************)
\* The call of caller c has passed the authentication check of lines 365-368.
PastPreconditions(c) == sc[c].pc \in {"wait5s", "getChats", "fetch", "forward"}

\* C22: once a scanGroups call has passed its preconditions its promise does
\* not reject, whatever the automation client does.
C22_NoRejectionPastPreconditions ==
  [][\A c \in Callers :
       PastPreconditions(c) => sc'[c].pc \notin {"rejectedClient", "rejectedChats"}]_vars

\* The groups of the list whose name equals groupName ignoring case.
exactMatches(allGroups, groupName) ==
  {k \in 1..Len(allGroups) : toLowerCase(allGroups[k].name) = toLowerCase(groupName)}

\* C23: when the fetched list holds a group whose name equals the target
\* ignoring case, that group is the one resolved, whatever the list order.
C23_ExactMatchPreferred ==
  \A c \in Callers :
    (sc[c].pc \in {"fetch", "forward"} /\ exactMatches(sc[c].allGroups, sc[c].names[sc[c].k]) # {})
      => sc[c].found \in exactMatches(sc[c].allGroups, sc[c].names[sc[c].k])

\* C24: the scan progress satisfies 0 <= completed <= total in every state.
C24_ProgressWithinTotal ==
  /\ 0 <= scanProgressData.completed
  /\ scanProgressData.completed <= scanProgressData.total

\* The membership fetches that have been started and have not settled: those
\* the calls wait on and those abandoned by their timeout.
PendingFetches ==
  {<<c, sc[c].k>> : c \in {d \in Callers : sc[d].pc = "fetch"}}
    \cup {<<o.caller, o.k>> : o \in {q \in orphans : q.stage = "fetch"}}

\* C30: at most one membership fetch is outstanding at any time.
C30_OneFetchOutstanding == Cardinality(PendingFetches) <= 1

\* C28: whenever the session is authenticated the auth-timeout timer is not
\* armed: the step that reaches authentication, by the authenticated event or
\* by the ready event, clears the timer.
C28_NoTimerWhenAuthenticated == isAuthenticated => authTimeoutTimer # "armed"

\* C25: extract(id) retrieves every active fragment whatever the page size of
\* the record store: a session saved in more fragments than one page holds is
\* still read in full and reconstructed to the saved artifact.
C25_ExtractAllPages ==
  (ExtractAfterCleanSave /\ totalChunksOf(encodeBlob(ex.last.blob)) > ExtractPageSize)
    => /\ Len(ex.indices) = totalChunksOf(encodeBlob(ex.last.blob))
       /\ outFile = FileOf(ex.last.blob)

\* The ids of every fragment of the session, active or not.
allFragmentIds(id) == {bySession(id)[k].id : k \in 1..Len(bySession(id))}

\* The listing of deleteAllSessionFragments has ended and DELETEs are issued.
EnumerationDone == sv.pc = "list" /\ sv'.pc = "delete"

\* One of the issued DELETEs is answered: it removes its record or fails, and
\* the cleanup ends only when it was the last one pending.
OneDeleteAnswered ==
  \E rid \in sv.pending :
    /\ records' \in {records, withoutRecord(rid)}
    /\ IF sv.pending = {rid} THEN sv'.pc # "delete"
       ELSE sv'.pc = "delete" /\ sv'.pending = sv.pending \ {rid}

\* C26: delete(id) enumerates the fragments of the session across every result
\* page, active or not, and issues a DELETE for each of them; a DELETE that
\* fails does not keep the other fragments from being deleted.
C26_DeleteEnumeratesAll ==
  [][/\ EnumerationDone => sv'.pending = allFragmentIds(sv.id)
     /\ (sv.pc = "delete" /\ sv' # sv) => OneDeleteAnswered]_vars

\* C26 witness: a delete() of a session of several fragments, one of them
\* inactive, has returned after one of its DELETEs failed: other fragments,
\* the inactive one among them, are gone.
C26_Witness ==
  /\ sv.pc = "idle"
  /\ Len(hist["s1"]) = 1
  /\ lastOp("s1").op = "delete" /\ ~lastOp("s1").ok
  /\ 0 < Len(bySession("s1")) /\ Len(bySession("s1")) < Len(SeededRecords)
  /\ bySession("s1") = activeBySession("s1")

\* The fragments the running save() has written so far, in the order written.
writtenBy(s) == SelectSeq(records, LAMBDA r : r.gen = s.gen /\ s.gen > 0)

\* The step writes a fragment to the store.
WritesFragment == Len(records') > Len(records)

\* The fragment the step has written.
newFragment == records'[Len(records')]

\* C27: within one save(), no DELETE of the cleanup is outstanding when a
\* fragment is written, the fragments are written one after the other with the
\* chunk indices 0, 1, .., n-1 in this order, and each carries totalChunks = n,
\* compressed = true and active = true.
C27_SequentialWrites ==
  /\ [](sv.pc = "write" =>
          /\ sv.pending = {}
          /\ Len(writtenBy(sv)) = sv.i
          /\ \A k \in 1..sv.i : writtenBy(sv)[k].chunk_index = k - 1)
  /\ [][WritesFragment =>
          /\ sv.op = "save" /\ sv.pc = "write" /\ sv.pending = {}
          /\ Len(records') = Len(records) + 1
          /\ newFragment.session_id = sv.id
          /\ newFragment.chunk_index = Len(writtenBy(sv))
          /\ newFragment.chunk_index < totalChunksOf(encodeBlob(sv.blob))
          /\ newFragment.total_chunks = totalChunksOf(encodeBlob(sv.blob))
          /\ newFragment.is_compressed /\ newFragment.active
          /\ newFragment.session_data = chunkOf(encodeBlob(sv.blob), newFragment.chunk_index)
          /\ (sv'.pc = "write" => sv'.i = sv.i + 1)
          /\ (sv'.pc # "write" => sv.i + 1 = totalChunksOf(encodeBlob(sv.blob)))]_vars

\* C27 witness: a save() that found the fragments of an earlier save has
\* deleted them all and has written its own first two fragments.
C27_Witness ==
  /\ sv.op = "save" /\ sv.pc = "write" /\ sv.i >= 2 /\ ~sv.failed
  /\ Len(hist[sv.id]) >= 1
  /\ hist[sv.id][1].op = "save" /\ hist[sv.id][1].ok
  /\ bySession(sv.id) = writtenBy(sv)

\* C21: every target name passed to scanGroups has an entry in the result map
\* the call resolves with, and the failure of a target never makes the call
\* reject: a call that has rejected had not begun its first target.
C21_EntryPerTarget ==
  /\ ws.pc = "resolved" =>
       \A j \in 1..Len(ws.names) : \E r \in ws.results : r.key = ws.names[j]
  /\ ws.pc = "rejected" => ws.k = 0

\* C29: the membership fetch of a resolved target is attempted at most
\* maxRetries times in total, the delay before the k-th retry is the fixed
\* delay or k times it, and the attempts end with the first success or when
\* they are exhausted.
C29_BoundedLinearRetries ==
  /\ rt.calls <= rt.maxRetries
  /\ \A k \in 1..Len(rt.delays) : rt.delays[k] \in {rt.delayMs, rt.delayMs * k}
  /\ rt.pc = "done" => (rt.result = "value" \/ rt.calls >= rt.maxRetries)

\* The step is the firing of the auth-timeout timer.
AuthTimerFiring == authTimeoutTimer = "armed" /\ authTimeoutTimer' = "fired"

\* The session has been closed: no client is held, none is being started or
\* destroyed, and the session is not authenticated.
SessionClosed ==
  /\ client = 0 /\ ~isAuthenticated
  /\ ini.pc = "idle" /\ lo.pc = "idle"
  /\ \A cl \in Clients : closing[cl] = 0

\* Everything but the handle of the auth-timeout timer itself.
controllerState ==
  <<storeVars, scanVars, apiVars, utilVars, client, live, pupPage, clientsCreated,
    qrCode, isAuthenticated, authError, isInitializing, autoCloseTimeout,
    autoCloseEnabled, ini, initCalls, closing>>

\* C31: an auth-timeout timer that fires while the session is authenticated,
\* or after the session was closed, closes nothing and changes no state of the
\* controller.
C31_StaleTimerNoop ==
  [][(AuthTimerFiring /\ (isAuthenticated \/ SessionClosed))
        => UNCHANGED controllerState]_vars

\* The step ends the item caller c was forwarding.
ForwardingEnds(c) == sc[c].pc = "forward" /\ sc'[c].k > sc[c].k

\* C32: however the forwarding of a fetched membership to the record service
\* goes (failure, slowness, retries exhausted), the item is reported
\* successful with its members.
C32_ForwardBestEffort ==
  [][\A c \in Callers :
       ForwardingEnds(c) =>
         /\ [key |-> sc[c].names[sc[c].k], name |-> sc[c].allGroups[sc[c].found].name,
             members |-> sc[c].members] \in sc'[c].results
         /\ sc[c].names[sc[c].k] \notin RangeOf(sc'[c].failedGroups)]_vars

\* The step is a step of an executor abandoned by the timeout of its item.
AbandonedExecutorSteps == \E o \in orphans : o \notin orphans'

\* C36: once a target has been recorded as failed because its timeout
\* elapsed, the abandoned fetch has no effect when it completes: it neither
\* overwrites the previous-members snapshot nor forwards members.
C36_AbandonedFetchInert ==
  [][AbandonedExecutorSteps =>
       (previousMembers' = previousMembers /\ forwarded' = forwarded)]_vars

\* The step is the handling of a disconnected event in the authenticated
\* state: the session leaves it and the handler touches nothing else of what
\* the other handlers and calls assign.
DisconnectedWhileAuthenticated ==
  /\ client # 0 /\ isAuthenticated /\ ~isAuthenticated'
  /\ UNCHANGED <<client, live, qrCode, authError, closing, lo, autoCloseTimeout,
                 authTimeoutTimer>>

\* C33: a disconnected event that arrives in the authenticated state makes the
\* session leave it and start a new initialization by itself.
C33_DisconnectRestarts ==
  [][DisconnectedWhileAuthenticated => (~isAuthenticated' /\ isInitializing')]_vars

\* C34: retry(fn, maxRetries, delayMs) invokes fn at most maxRetries + 1 times,
\* returns the value of the first invocation that succeeds without invoking fn
\* again, waits delayMs * 2^(k-1) (exponential) or delayMs * k (linear) before
\* the k-th retry, and resolves to null, never rejecting, when every invocation
\* has failed.
C34_RetryContract ==
  rt.code = "retry" =>
    /\ rt.calls <= rt.maxRetries + 1
    /\ rt.calls = rt.attempt + (IF rt.pc = "delay" THEN 0 ELSE 1)
    /\ Len(rt.delays) = rt.attempt
    /\ \A k \in 1..Len(rt.delays) :
         rt.delays[k] = IF rt.useExponentialBackoff
                        THEN rt.delayMs * pow2(k - 1)
                        ELSE rt.delayMs * k
    /\ rt.result \in {"none", "value", "null"}
    /\ (rt.result = "none") = (rt.pc # "done")
    /\ rt.result = "null" => rt.calls = rt.maxRetries + 1

\* C34 witness: with three retries allowed and exponential backoff every
\* invocation has failed: four invocations, three delays, null returned.
C34_Witness ==
  /\ rt.code = "retry" /\ rt.pc = "done" /\ rt.result = "null"
  /\ rt.maxRetries = 3 /\ rt.calls = 4 /\ rt.useExponentialBackoff
  /\ rt.delays = <<rt.delayMs, 2 * rt.delayMs, 4 * rt.delayMs>>

\* Both save() calls on id have returned with every request answered.
BothSavesDone(id) ==
  \A i \in Savers : cs[i].pc = "done" /\ cs[i].id = id /\ ~cs[i].failed

\* C35: when two save() calls for one session id overlap, after both have
\* completed the active fragments of the id all belong to a single save, as one
\* contiguous generation, and extract(id) returns one of the two blobs intact.
C35_OverlapOneGeneration ==
  \A id \in SessionIds :
    BothSavesDone(id) =>
      /\ \E i \in Savers : HoldsExactly(id, cs[i].blob, i)
      /\ reconstruct(fetchedFragments(id)) \in {cs[i].blob : i \in Savers}

\* Every item of the call has been processed: fn was invoked once on it, has
\* settled and its result is stored.
AllProcessed ==
  \A k \in 0..(wl.n - 1) :
    wl.invoked[k] = 1 /\ k \notin wl.inFlight /\ wl.results[k] \in {"value", "null"}

\* What the call does for a limit of at least one.
LimitContract ==
  /\ wl.pc \in {"running", "resolved"}
  /\ Cardinality(wl.inFlight) <= wl.maxConcurrent
  /\ wl.peak <= wl.maxConcurrent
  /\ \A k \in ItemIndexes :
       /\ wl.invoked[k] <= 1
       /\ k >= wl.n => wl.invoked[k] = 0
       /\ (wl.results[k] # "unset") = (wl.invoked[k] = 1 /\ k \notin wl.inFlight)
  /\ wl.pc = "resolved" => AllProcessed

\* C40: for maxConcurrent >= 1, withConcurrencyLimit never has more than
\* maxConcurrent invocations of fn in flight, invokes fn once per item, stores
\* each result at its item's index (null for a rejected fn) and resolves only
\* after every item has been processed; for maxConcurrent = 0 it resolves at
\* once and invokes nothing, for a negative maxConcurrent it rejects.
C40_ConcurrencyLimit ==
  /\ (wl.pc # "idle" /\ wl.maxConcurrent >= 1) => LimitContract
  /\ (wl.pc # "idle" /\ wl.maxConcurrent = 0) =>
       (wl.pc = "resolved" /\ \A k \in ItemIndexes : wl.invoked[k] = 0)
  /\ (wl.pc # "idle" /\ wl.maxConcurrent < 0) => wl.pc = "rejected"

\* C40 as first stated: whatever the limit, the call resolves only after every
\* item has been processed.
C40_AnyLimit == wl.pc = "resolved" => AllProcessed

\* C40 witness: three items under a limit of two, both slots used, one fn
\* rejected, and the call resolved.
C40_Witness ==
  /\ wl.pc = "resolved" /\ wl.n = 3 /\ wl.maxConcurrent = 2 /\ wl.peak = 2
  /\ \E k \in ItemIndexes : wl.results[k] = "null"
  /\ \E k \in ItemIndexes : wl.results[k] = "value"

\* C37: whenever isClientAuthenticated() is true a client handle is held.
C37_AuthenticatedHoldsClient == isAuthenticated => client # 0

\* C38: whenever isClientAuthenticated() is true, getQRCode() is null.
C38_NoQrWhenAuthenticated == isAuthenticated => qrCode = "null"

\* The scans with their timers: the 5 s wait of scanGroups() ends, the timer of
\* an item fires unless the item ends first, and an executor that was
\* abandoned ends, so that the bound on their number never holds a timer back.
\* Nothing makes client.getChats() or the membership fetch of the current item
\* answer.
ScanFairness ==
  /\ \A c \in Callers : WF_vars(ScanWaitDone(c)) /\ WF_vars(ItemTimeout(c))
  /\ WF_vars(\E o \in orphans :
               OrphanFetchOk(o) \/ OrphanFetchFail(o) \/ OrphanForwardDone(o))

SpecScanFair == InitScan /\ [][NextScan]_vars /\ ScanFairness

\* C39: every scanGroups call that has passed its preconditions eventually
\* settles, and isScanning() eventually returns to false, even if getChats or a
\* membership fetch never answers, provided the armed timers fire.
C39_ScanSettles ==
  /\ \A c \in Callers : PastPreconditions(c) ~> ~PastPreconditions(c)
  /\ scanning ~> ~scanning

====
